---- MODULE Spec2Model ----
(***************************************************************************)
(* Model of the Nexus SQL table designer (TableDesigner.jsx), of the data  *)
(* grid (DataGridView.jsx): its metadata synthesizer, its row form with    *)
(* the validator, its pages and the requests it sends, of the Databricks   *)
(* adapter (src/unnamed/part_001): its structure query, its row            *)
(* statements, executeQuery and the shared client, and of the connection   *)
(* configuration saved by the application shell (src/unnamed/part_000).    *)
(*                                                                         *)
(* A row object is the sequence of its entries, a row value a record       *)
(* tagged with its JavaScript type.                                        *)
(*                                                                         *)
(* JavaScript strings are TLA+ strings; TLC evaluates Len, SubSeq and \o   *)
(* on them, so substring search, split, trim and the two regular           *)
(* expressions of the decoder are computed character by character.         *)
(* A JavaScript value that may be undefined is a sequence of length 0      *)
(* (undefined) or 1 (the value); an object field that may be absent is a   *)
(* record field that may be absent.                                        *)
(***************************************************************************)
EXTENDS Integers, Sequences, FiniteSets, TLC

VARIABLES
    tableName,              \* TableDesigner.jsx:4   useState('')
    columns,                \* TableDesigner.jsx:6   useState([ID column])
    generatedSQL,           \* TableDesigner.jsx:11
    showListValuesModal,    \* TableDesigner.jsx:12
    showTableReferenceModal,\* TableDesigner.jsx:13
    listValues,             \* TableDesigner.jsx:16  parent state of the list dialog
    selectedRefTable,       \* TableDesigner.jsx:17  parent state of the reference dialog
    selectedDisplayColumns, \* TableDesigner.jsx:18
    timers,                 \* pending setTimeout(..., 0) callbacks, in order
    dbConfig,               \* the dbConfig prop of the designer
    lastRequest,            \* body of the last POST /api/create-table
    store,                  \* DESCRIBE TABLE rows of the created table
    gridColumns,            \* DataGridView.jsx:4   columns
    primaryKeyColumn,       \* DataGridView.jsx:19
    gridError,              \* DataGridView.jsx:7   error
    table,                  \* the table prop of the grid, undefined while no grid is shown
    data,                   \* DataGridView.jsx:5   the rows of the table
    isModalOpen,            \* DataGridView.jsx:14
    modalMode,              \* DataGridView.jsx:15  'add' or 'edit'
    currentRow,             \* DataGridView.jsx:16  the row in the form
    validationErrors,       \* DataGridView.jsx:18
    gridRequest,            \* the POST, PUT or DELETE the last handler of the grid
                            \* sent, with the statement the adapter built for it
    appDbConfig,            \* part_000:16  dbConfig of the application shell
    adapterDbConfig,        \* part_001:5   dbConfig of the adapter
    databricksClient,       \* part_001:17  the cached client, undefined for null
    clients,                \* the DBSQLClient objects created so far: their state
    calls,                  \* the executeQuery calls in progress
    executed,               \* the statement last given to session.executeStatement
    currentPage             \* DataGridView.jsx:8   useState(0)

vars == <<tableName, columns, generatedSQL, showListValuesModal,
          showTableReferenceModal, listValues, selectedRefTable,
          selectedDisplayColumns, timers, dbConfig, lastRequest, store,
          gridColumns, primaryKeyColumn, gridError, table, data, isModalOpen,
          modalMode, currentRow, validationErrors, gridRequest, appDbConfig,
          adapterDbConfig, databricksClient, clients, calls, executed,
          currentPage>>

designerVars == <<tableName, columns, generatedSQL, showListValuesModal,
                  showTableReferenceModal, listValues, selectedRefTable,
                  selectedDisplayColumns, timers>>

gridVars == <<gridColumns, primaryKeyColumn, gridError, table, data, isModalOpen,
              modalMode, currentRow, validationErrors, gridRequest,
              currentPage>>

adapterVars == <<appDbConfig, adapterDbConfig, databricksClient, clients, calls,
                 executed>>

(***************************************************************************)
(* Bounds of the model.                                                    *)
(***************************************************************************)
MaxColumns == 2

(***************************************************************************)
(* JavaScript values.                                                      *)
(***************************************************************************)
Undefined == <<>>

Defined(v) == <<v>>

IsDefined(o) == Len(o) > 0

ValueOf(o) == o[1]

\* !x for a string that may be undefined
Falsy(o) == ~IsDefined(o) \/ ValueOf(o) = ""

(***************************************************************************)
(* String.prototype functions, on TLA+ strings.                            *)
(***************************************************************************)
CharAt(s, i) == SubSeq(s, i, i)

Whitespace == {" ", "\n", "\t", "\r"}

StartsWithAt(s, sub, i) ==
    /\ i >= 1
    /\ i + Len(sub) - 1 <= Len(s)
    /\ SubSeq(s, i, i + Len(sub) - 1) = sub

\* s.indexOf(sub), 1-based; 0 when sub does not occur
IndexOf(s, sub) ==
    LET hits == {i \in 1..(Len(s) - Len(sub) + 1) : StartsWithAt(s, sub, i)}
    IN  IF hits = {} THEN 0 ELSE CHOOSE i \in hits : \A j \in hits : i <= j

Includes(s, sub) == Len(sub) = 0 \/ IndexOf(s, sub) > 0

EndsWith(s, suffix) ==
    /\ Len(suffix) <= Len(s)
    /\ SubSeq(s, Len(s) - Len(suffix) + 1, Len(s)) = suffix

RECURSIVE TrimStart(_)
TrimStart(s) ==
    IF Len(s) > 0 /\ CharAt(s, 1) \in Whitespace THEN TrimStart(Tail(s)) ELSE s

RECURSIVE TrimEnd(_)
TrimEnd(s) ==
    IF Len(s) > 0 /\ CharAt(s, Len(s)) \in Whitespace
    THEN TrimEnd(SubSeq(s, 1, Len(s) - 1))
    ELSE s

Trim(s) == TrimEnd(TrimStart(s))

\* s.split(sep) for a non-empty separator: ''.split(',') is ['']
RECURSIVE Split(_, _)
Split(s, sep) ==
    LET i == IndexOf(s, sep)
    IN  IF i = 0
        THEN <<s>>
        ELSE <<SubSeq(s, 1, i - 1)>> \o Split(SubSeq(s, i + Len(sep), Len(s)), sep)

\* parts.join(sep)
RECURSIVE Join(_, _)
Join(parts, sep) ==
    IF Len(parts) = 0 THEN ""
    ELSE IF Len(parts) = 1 THEN parts[1]
    ELSE parts[1] \o sep \o Join(Tail(parts), sep)

MapSeq(f(_), s) == [i \in 1..Len(s) |-> f(s[i])]

RECURSIVE FilterSeq(_, _)
FilterSeq(p(_), s) ==
    IF Len(s) = 0 THEN <<>>
    ELSE (IF p(s[1]) THEN <<s[1]>> ELSE <<>>) \o FilterSeq(p, Tail(s))

LowerLetters == "abcdefghijklmnopqrstuvwxyz"

UpperLetters == "ABCDEFGHIJKLMNOPQRSTUVWXYZ"

UpperChar(c) ==
    LET i == IndexOf(LowerLetters, c) IN IF i = 0 THEN c ELSE CharAt(UpperLetters, i)

LowerChar(c) ==
    LET i == IndexOf(UpperLetters, c) IN IF i = 0 THEN c ELSE CharAt(LowerLetters, i)

RECURSIVE ToUpperCase(_)
ToUpperCase(s) ==
    IF Len(s) = 0 THEN "" ELSE UpperChar(CharAt(s, 1)) \o ToUpperCase(Tail(s))

RECURSIVE ToLowerCase(_)
ToLowerCase(s) ==
    IF Len(s) = 0 THEN "" ELSE LowerChar(CharAt(s, 1)) \o ToLowerCase(Tail(s))

(***************************************************************************)
(* SQL Generator: TableDesigner.jsx generateSQL.                           *)
(***************************************************************************)
userFriendlyDataTypes == <<"Text", "Number", "Date", "True/False">>

\* sqlDataTypeMap[dataType]; a missing key reads as undefined, which the
\* template literal prints as the text "undefined"
sqlDataTypeMap(dataType) ==
    CASE dataType = "Text"       -> "STRING"
      [] dataType = "Number"     -> "DOUBLE"
      [] dataType = "Date"       -> "TIMESTAMP"
      [] dataType = "True/False" -> "BOOLEAN"
      [] dataType = "BIGINT"     -> "BIGINT"
      [] dataType = "List"       -> "STRING"
      [] dataType = "Reference"  -> "BIGINT"
      [] OTHER                   -> "undefined"

\* lines 274-282: the native type of a column
SqlDataTypeOf(col) ==
    IF col.dataType = "List" THEN "STRING"
    ELSE IF col.dataType = "Reference" THEN "BIGINT"
    ELSE sqlDataTypeMap(col.dataType)

HasListValues(col) ==
    /\ col.dataType = "List"
    /\ "listValues" \in DOMAIN col
    /\ Len(col.listValues) > 0

HasReferenceTable(col) ==
    /\ col.dataType = "Reference"
    /\ "referenceTable" \in DOMAIN col
    /\ col.referenceTable # ""

\* col.displayColumns?.join(', ') || 'ID'
DisplayText(col) ==
    LET joined == IF "displayColumns" \in DOMAIN col
                  THEN Join(col.displayColumns, ", ")
                  ELSE ""
    IN  IF joined # "" THEN joined ELSE "ID"

\* variant for sensitivity checks: line 295 without the test of
\* listValues.length
CommentsEveryList(col) ==
    IF col.dataType = "List" /\ "listValues" \in DOMAIN col
    THEN "/* ALLOWED VALUES: " \o Join(col.listValues, ", ") \o " */"
    ELSE IF HasReferenceTable(col)
    THEN "/* REFERENCES: " \o col.referenceTable
         \o " (DISPLAY: " \o DisplayText(col) \o ") */"
    ELSE ""

\* lines 293-298: the comment the generator emits for a column, "" if none
ColumnComment(col) ==
    IF HasListValues(col)
    THEN "/* ALLOWED VALUES: " \o Join(col.listValues, ", ") \o " */"
    ELSE IF HasReferenceTable(col)
    THEN "/* REFERENCES: " \o col.referenceTable
         \o " (DISPLAY: " \o DisplayText(col) \o ") */"
    ELSE ""

\* variant for sensitivity checks: lines 287-291 in the other order
NotNullBeforeIdentity(col) ==
    "  " \o col.name \o " " \o SqlDataTypeOf(col)
    \o (IF col.isNullable THEN "" ELSE " NOT NULL")
    \o (IF col.isIdentity THEN " GENERATED ALWAYS AS IDENTITY" ELSE "")
    \o (IF ColumnComment(col) # "" THEN " " \o ColumnComment(col) ELSE "")

\* lines 272-300: one column definition
ColumnDefinition(col) ==
    "  " \o col.name \o " " \o SqlDataTypeOf(col)
    \o (IF col.isIdentity THEN " GENERATED ALWAYS AS IDENTITY" ELSE "")
    \o (IF col.isNullable THEN "" ELSE " NOT NULL")
    \o (IF ColumnComment(col) # "" THEN " " \o ColumnComment(col) ELSE "")

\* dbConfig?.databricks?.catalog || 'nexus_dev'
CatalogOf(cfg) ==
    IF "databricks" \in DOMAIN cfg /\ "catalog" \in DOMAIN cfg.databricks
       /\ cfg.databricks.catalog # ""
    THEN cfg.databricks.catalog
    ELSE "nexus_dev"

\* dbConfig?.databricks?.schema || 'default'
SchemaOf(cfg) ==
    IF "databricks" \in DOMAIN cfg /\ "schema" \in DOMAIN cfg.databricks
       /\ cfg.databricks.schema # ""
    THEN cfg.databricks.schema
    ELSE "default"

IsPrimaryKeyColumn(col) == col.isPrimaryKey

IsForeignKeyColumn(col) == col.dataType = "Reference" /\ HasReferenceTable(col)

ColumnName(col) == col.name

\* lines 305-309
PrimaryKeyClause(currentTableName, currentColumns) ==
    LET primaryKeyColumns ==
            MapSeq(ColumnName, FilterSeq(IsPrimaryKeyColumn, currentColumns))
    IN  IF Len(primaryKeyColumns) > 0
        THEN ",\n  CONSTRAINT PK_" \o currentTableName \o " PRIMARY KEY (\n    "
             \o Join(primaryKeyColumns, ",\n    ") \o "\n  )"
        ELSE ""

Digits == "0123456789"

\* String(n) for 0 <= n <= 99
NumberToString(n) ==
    IF n < 10 THEN CharAt(Digits, n + 1)
    ELSE CharAt(Digits, (n \div 10) + 1) \o CharAt(Digits, (n % 10) + 1)

\* variant for sensitivity checks: lines 314-316 without the ordinal idx in
\* the constraint name
UnnumberedForeignKeyClauses(currentTableName, currentColumns, cfg) ==
    LET refs == FilterSeq(IsForeignKeyColumn, currentColumns)
        fk(i) == "  CONSTRAINT FK_" \o currentTableName \o "_"
                 \o refs[i].referenceTable
                 \o " FOREIGN KEY (" \o refs[i].name \o ") REFERENCES "
                 \o CatalogOf(cfg) \o "." \o SchemaOf(cfg) \o "."
                 \o refs[i].referenceTable
                 \o " (" \o refs[i].referenceTable \o "ID)"
        foreignKeys == [i \in 1..Len(refs) |-> fk(i)]
    IN  IF Len(foreignKeys) > 0 THEN ",\n" \o Join(foreignKeys, ",\n") ELSE ""

\* lines 311-320; idx is the 0-based position among the reference columns
ForeignKeyClauses(currentTableName, currentColumns, cfg) ==
    LET refs == FilterSeq(IsForeignKeyColumn, currentColumns)
        fk(i) == "  CONSTRAINT FK_" \o currentTableName \o "_"
                 \o refs[i].referenceTable \o "_" \o NumberToString(i - 1)
                 \o " FOREIGN KEY (" \o refs[i].name \o ") REFERENCES "
                 \o CatalogOf(cfg) \o "." \o SchemaOf(cfg) \o "."
                 \o refs[i].referenceTable
                 \o " (" \o refs[i].referenceTable \o "ID)"
        foreignKeys == [i \in 1..Len(refs) |-> fk(i)]
    IN  IF Len(foreignKeys) > 0 THEN ",\n" \o Join(foreignKeys, ",\n") ELSE ""

\* variant for sensitivity checks: the loop of lines 258-263 stopping after
\* the first column
FirstColumnUnnamed(currentColumns) == currentColumns[1].name = ""

\* lines 258-263: some column has a falsy name
SomeColumnUnnamed(currentColumns) ==
    \E i \in 1..Len(currentColumns) : currentColumns[i].name = ""

\* lines 251-326: the text generateSQL returns and stores in generatedSQL
GenerateSQL(currentTableName, currentColumns, cfg) ==
    IF currentTableName = "" THEN ""
    ELSE IF SomeColumnUnnamed(currentColumns) THEN ""
    ELSE "CREATE TABLE " \o CatalogOf(cfg) \o "." \o SchemaOf(cfg) \o "."
         \o currentTableName \o " (\n"
         \o Join(MapSeq(ColumnDefinition, currentColumns), ",\n")
         \o PrimaryKeyClause(currentTableName, currentColumns)
         \o ForeignKeyClauses(currentTableName, currentColumns, cfg)
         \o "\n) USING DELTA;"

(***************************************************************************)
(* Metadata Synthesizer: DataGridView.jsx.                                 *)
(***************************************************************************)
\* variant for sensitivity checks: lines 50-57 with the two comment tests in
\* the other order
ReferenceMarkerFirst(sqlTypeArg, columnComment) ==
    IF Falsy(sqlTypeArg) THEN "Text"
    ELSE
      LET sqlType == ToUpperCase(ValueOf(sqlTypeArg))
          comment == IF Falsy(columnComment) THEN "" ELSE ValueOf(columnComment)
          has(t)  == Includes(sqlType, t)
      IN  IF comment # "" /\ Includes(comment, "REFERENCES:") THEN "Reference"
          ELSE IF comment # "" /\ Includes(comment, "ALLOWED VALUES:") THEN "List"
          ELSE IF has("VARCHAR") \/ has("CHAR") \/ has("TEXT") \/ has("STRING")
               THEN (IF has("MAX") THEN "Long Text" ELSE "Text")
          ELSE IF has("INT") \/ has("NUMERIC") \/ has("DECIMAL") \/ has("FLOAT")
                  \/ has("REAL") \/ has("MONEY") \/ has("DOUBLE")
               THEN "Number"
          ELSE IF has("DATE") \/ has("TIME") THEN "Date"
          ELSE IF has("BIT") \/ has("BOOLEAN") THEN "True/False"
          ELSE "Text"

\* lines 44-74; both arguments may be undefined
mapSqlTypeToFriendlyType(sqlTypeArg, columnComment) ==
    IF Falsy(sqlTypeArg) THEN "Text"
    ELSE
      LET sqlType == ToUpperCase(ValueOf(sqlTypeArg))
          comment == IF Falsy(columnComment) THEN "" ELSE ValueOf(columnComment)
          has(t)  == Includes(sqlType, t)
      IN  IF comment # "" /\ Includes(comment, "ALLOWED VALUES:") THEN "List"
          ELSE IF comment # "" /\ Includes(comment, "REFERENCES:") THEN "Reference"
          ELSE IF has("VARCHAR") \/ has("CHAR") \/ has("TEXT") \/ has("STRING")
               THEN (IF has("MAX") THEN "Long Text" ELSE "Text")
          ELSE IF has("INT") \/ has("NUMERIC") \/ has("DECIMAL") \/ has("FLOAT")
                  \/ has("REAL") \/ has("MONEY") \/ has("DOUBLE")
               THEN "Number"
          ELSE IF has("DATE") \/ has("TIME") THEN "Date"
          ELSE IF has("BIT") \/ has("BOOLEAN") THEN "True/False"
          ELSE "Text"

\* lines 77-82
extractListValues(commentArg) ==
    IF Falsy(commentArg) \/ ~Includes(ValueOf(commentArg), "ALLOWED VALUES:")
    THEN <<>>
    ELSE LET valuesPart == Trim(Split(ValueOf(commentArg), "ALLOWED VALUES:")[2])
         IN  MapSeq(Trim, Split(valuesPart, ","))

\* the class [^\s(] of the table-name pattern
IsTableNameChar(c) == c \notin Whitespace /\ c # "("

\* the longest prefix of s whose characters all satisfy p
RECURSIVE TakeWhile(_, _)
TakeWhile(p(_), s) ==
    IF Len(s) > 0 /\ p(CharAt(s, 1))
    THEN CharAt(s, 1) \o TakeWhile(p, Tail(s))
    ELSE ""

RECURSIVE DropWhile(_, _)
DropWhile(p(_), s) ==
    IF Len(s) > 0 /\ p(CharAt(s, 1)) THEN DropWhile(p, Tail(s)) ELSE s

NotTableNameChar(c) == ~IsTableNameChar(c)

IsWhitespace(c) == c \in Whitespace

NotCloseParen(c) == c # ")"

\* parts.match(/([^\s(]+)/): group 1, undefined when nothing matches
MatchTableName(parts) ==
    LET run == TakeWhile(IsTableNameChar, DropWhile(NotTableNameChar, parts))
    IN  IF run = "" THEN Undefined ELSE Defined(run)

\* parts.match(/DISPLAY:\s*([^)]+)/): group 1, undefined when nothing matches.
\* At an occurrence of DISPLAY: the greedy \s* takes all white space; if no
\* character other than ')' follows, it gives one white-space character back
\* to the group; with no white space the match moves to the next occurrence.
RECURSIVE MatchDisplay(_)
MatchDisplay(parts) ==
    LET p == IndexOf(parts, "DISPLAY:")
    IN  IF p = 0 THEN Undefined
        ELSE
          LET after == SubSeq(parts, p + 8, Len(parts))
              ws    == TakeWhile(IsWhitespace, after)
              rest  == SubSeq(after, Len(ws) + 1, Len(after))
              group == TakeWhile(NotCloseParen, rest)
          IN  IF group # "" THEN Defined(group)
              ELSE IF ws # "" THEN Defined(CharAt(ws, Len(ws)))
              ELSE MatchDisplay(after)

\* lines 85-98
extractReferenceInfo(commentArg) ==
    IF Falsy(commentArg) \/ ~Includes(ValueOf(commentArg), "REFERENCES:")
    THEN [table |-> "", displayColumns |-> <<>>]
    ELSE LET parts        == Trim(Split(ValueOf(commentArg), "REFERENCES:")[2])
             tableMatch   == MatchTableName(parts)
             displayMatch == MatchDisplay(parts)
         IN  [table |-> IF IsDefined(tableMatch) THEN Trim(ValueOf(tableMatch)) ELSE "",
              displayColumns |->
                  IF IsDefined(displayMatch)
                  THEN MapSeq(Trim, Split(ValueOf(displayMatch), ","))
                  ELSE <<"ID">>]

(***************************************************************************)
(* Backing store and adapter: the table the DDL creates, as DESCRIBE TABLE *)
(* reports it, and getTableStructure (src/unnamed/part_001).               *)
(***************************************************************************)
NotSpace(c) == c # " "

NotSpaceOrComma(c) == c # " " /\ c # ","

\* the lines of the DDL that define columns: those between the CREATE TABLE
\* line and the first constraint or the closing line
RECURSIVE DefinitionLines(_)
DefinitionLines(lines) ==
    IF Len(lines) = 0 THEN <<>>
    ELSE IF StartsWithAt(lines[1], "  CONSTRAINT ", 1)
            \/ StartsWithAt(lines[1], ") USING", 1)
    THEN <<>>
    ELSE <<lines[1]>> \o DefinitionLines(Tail(lines))

\* the DESCRIBE TABLE row of one column definition line; the store reports
\* type names in lower case, and a comment only if it keeps the DDL's
\* comment text
DescribeRow(line, keepsComments) ==
    LET body     == SubSeq(line, 3, Len(line))
        col_name == TakeWhile(NotSpace, body)
        rest     == SubSeq(body, Len(col_name) + 2, Len(body))
        typeName == TakeWhile(NotSpaceOrComma, rest)
        open     == IndexOf(rest, "/*")
        close    == IndexOf(rest, "*/")
    IN  [col_name  |-> col_name,
         data_type |-> ToLowerCase(typeName),
         comment   |-> IF keepsComments /\ open > 0 /\ close > open
                       THEN Defined(SubSeq(rest, open, close + 1))
                       ELSE Undefined]

DescribeTable(sql, keepsComments) ==
    LET lines == DefinitionLines(Tail(Split(sql, "\n")))
    IN  [i \in 1..Len(lines) |-> DescribeRow(lines[i], keepsComments)]

\* part_001 lines 195-203: the columns of the structure response
StructureColumn(row) ==
    [name         |-> row.col_name,
     dataType     |-> row.data_type,
     length       |-> 0,
     precision    |-> 0,
     scale        |-> 0,
     isNullable   |-> TRUE,
     isPrimaryKey |-> FALSE]

getTableStructure(rows) == MapSeq(StructureColumn, rows)

\* col.comment of a structure column
CommentField(col) == IF "comment" \in DOMAIN col THEN col.comment ELSE Undefined

\* DataGridView.jsx lines 118-139
MappedColumn(col) ==
    LET friendlyType  == mapSqlTypeToFriendlyType(Defined(col.dataType), CommentField(col))
        referenceInfo == IF friendlyType = "Reference"
                         THEN extractReferenceInfo(CommentField(col))
                         ELSE [table |-> "", displayColumns |-> <<>>]
    IN  [name           |-> col.name,
         dataType       |-> col.dataType,
         isNullable     |-> col.isNullable,
         isPrimaryKey   |-> col.isPrimaryKey,
         comment        |-> CommentField(col),
         friendlyType   |-> friendlyType,
         listValues     |-> IF friendlyType = "List"
                            THEN extractListValues(CommentField(col))
                            ELSE <<>>,
         referenceTable |-> referenceInfo.table,
         displayColumns |-> referenceInfo.displayColumns]

FlaggedPrimaryKey(col) == col.isPrimaryKey

NameEndsWithId(col) == EndsWith(ToLowerCase(col.name), "id")

\* Array.prototype.find: the first element satisfying p, else undefined
Find(p(_), s) ==
    LET hits == FilterSeq(p, s) IN IF Len(hits) = 0 THEN Undefined ELSE Defined(hits[1])

NoPrimaryKeyWarning ==
    "Warning: No primary key column found in this table. Updates and deletes may not work correctly."

(***************************************************************************)
(* Row values of the data grid: the JSON values of a row object and what   *)
(* the validator's built-ins, Number(value) and Date.parse(value), make of *)
(* them.                                                                   *)
(***************************************************************************)
Null == [t |-> "null"]
UndefinedValue == [t |-> "undefined"]
Str(s) == [t |-> "string", s |-> s]
Num(n) == [t |-> "number", n |-> n]
Bool(b) == [t |-> "boolean", b |-> b]

\* value === '' , value === null, value === undefined
IsEmptyString(value) == value = Str("")
IsNull(value) == value = Null
IsUndefinedValue(value) == value = UndefinedValue

\* ToBoolean(value): `value &&`, `value ||`, `if (value)`
Truthy(value) ==
    CASE value.t = "string"  -> value.s # ""
      [] value.t = "number"  -> value.n # 0
      [] value.t = "boolean" -> value.b
      [] OTHER               -> FALSE

\* String(value) for the numbers 0..99 of a row
ToStringValue(value) ==
    CASE value.t = "string"  -> value.s
      [] value.t = "number"  -> NumberToString(value.n)
      [] value.t = "boolean" -> IF value.b THEN "true" ELSE "false"
      [] value.t = "null"    -> "null"
      [] OTHER               -> "undefined"

IsDigitChar(c) == IndexOf(Digits, c) > 0

IsHexChar(c) == IndexOf("0123456789abcdef", LowerChar(c)) > 0

IsZeroChar(c) == c = "0"

AllDigits(s) == \A i \in 1..Len(s) : IsDigitChar(CharAt(s, i))

\* the value of a digit string, capped so that long strings stay in range
RECURSIVE DigitsToNat(_)
DigitsToNat(s) ==
    IF Len(s) = 0 THEN 0
    ELSE LET rest == DigitsToNat(SubSeq(s, 1, Len(s) - 1))
             n    == 10 * rest + (IndexOf(Digits, CharAt(s, Len(s))) - 1)
         IN  IF rest >= 9999 \/ n >= 9999 THEN 9999 ELSE n

StripSign(s) ==
    IF Len(s) > 0 /\ CharAt(s, 1) \in {"+", "-"} THEN Tail(s) ELSE s

\* NonDecimalIntegerLiteral of StringNumericLiteral: 0x, 0o, 0b; no sign
IsRadixLiteral(s) ==
    /\ Len(s) > 2
    /\ \/ /\ ToLowerCase(SubSeq(s, 1, 2)) = "0x"
          /\ \A i \in 3..Len(s) : IsHexChar(CharAt(s, i))
       \/ /\ ToLowerCase(SubSeq(s, 1, 2)) = "0o"
          /\ \A i \in 3..Len(s) : IndexOf("01234567", CharAt(s, i)) > 0
       \/ /\ ToLowerCase(SubSeq(s, 1, 2)) = "0b"
          /\ \A i \in 3..Len(s) : CharAt(s, i) \in {"0", "1"}

\* StrUnsignedDecimalLiteral without Infinity: digits, '.', exponent
MantissaOf(s) ==
    LET e == IndexOf(ToLowerCase(s), "e")
    IN  IF e = 0 THEN s ELSE SubSeq(s, 1, e - 1)

HasExponent(s) == IndexOf(ToLowerCase(s), "e") > 0

ExponentOf(s) ==
    SubSeq(s, IndexOf(ToLowerCase(s), "e") + 1, Len(s))

IntegerDigits(m) ==
    LET d == IndexOf(m, ".") IN IF d = 0 THEN m ELSE SubSeq(m, 1, d - 1)

FractionDigits(m) ==
    LET d == IndexOf(m, ".") IN IF d = 0 THEN "" ELSE SubSeq(m, d + 1, Len(m))

IsDecimalLiteral(s) ==
    /\ AllDigits(IntegerDigits(MantissaOf(s)))
    /\ AllDigits(FractionDigits(MantissaOf(s)))
    /\ Len(IntegerDigits(MantissaOf(s))) + Len(FractionDigits(MantissaOf(s))) > 0
    /\ HasExponent(s) => /\ Len(StripSign(ExponentOf(s))) > 0
                         /\ AllDigits(StripSign(ExponentOf(s)))

SignificantDigits(m) ==
    DropWhile(IsZeroChar, IntegerDigits(m) \o FractionDigits(m))

\* the power of ten of the first significant digit of s
DecimalOrder(s) ==
    LET m        == MantissaOf(s)
        leading  == Len(IntegerDigits(m)) + Len(FractionDigits(m))
                    - Len(SignificantDigits(m))
        exponent == IF ~HasExponent(s) THEN 0
                    ELSE IF CharAt(ExponentOf(s), 1) = "-"
                         THEN 0 - DigitsToNat(StripSign(ExponentOf(s)))
                         ELSE DigitsToNat(StripSign(ExponentOf(s)))
    IN  Len(IntegerDigits(m)) - 1 - leading + exponent

\* a < b for digit strings of the same length
RECURSIVE DigitsLess(_, _)
DigitsLess(a, b) ==
    /\ Len(a) > 0
    /\ \/ IndexOf(Digits, CharAt(a, 1)) < IndexOf(Digits, CharAt(b, 1))
       \/ /\ CharAt(a, 1) = CharAt(b, 1)
          /\ DigitsLess(Tail(a), Tail(b))

\* the largest double is 1.7976931348623157e308; a literal is read by its
\* first 17 significant digits
MaxDoubleDigits == "17976931348623158"

ExceedsDouble(s) ==
    LET digits == SubSeq(SignificantDigits(MantissaOf(s)) \o "00000000000000000",
                         1, Len(MaxDoubleDigits))
    IN  /\ Len(SignificantDigits(MantissaOf(s))) > 0
        /\ \/ DecimalOrder(s) > 308
           \/ /\ DecimalOrder(s) = 308
              /\ ~DigitsLess(digits, MaxDoubleDigits)

\* Number(s) of a string: "finite", "infinite" or "nan"
StringToNumber(s) ==
    LET text == Trim(s)
    IN  IF text = "" THEN "finite"
        ELSE IF IsRadixLiteral(text) THEN "finite"
        ELSE IF StripSign(text) = "Infinity" THEN "infinite"
        ELSE IF IsDecimalLiteral(StripSign(text))
             THEN IF ExceedsDouble(StripSign(text)) THEN "infinite" ELSE "finite"
        ELSE "nan"

\* Number(value): null is 0, a boolean 0 or 1, undefined NaN
ToNumber(value) ==
    CASE value.t = "string"    -> StringToNumber(value.s)
      [] value.t = "undefined" -> "nan"
      [] OTHER                 -> "finite"

\* isNaN(Number(value))
IsNaNNumber(value) == ToNumber(value) = "nan"

\* YYYY-MM-DD with a month and a day that exist
IsLeapYear(y) == (y % 4 = 0 /\ y % 100 # 0) \/ y % 400 = 0

DaysInMonth(y, m) ==
    IF m = 2 THEN (IF IsLeapYear(y) THEN 29 ELSE 28)
    ELSE IF m \in {4, 6, 9, 11} THEN 30 ELSE 31

IsIsoDate(s) ==
    /\ Len(s) = 10
    /\ CharAt(s, 5) = "-" /\ CharAt(s, 8) = "-"
    /\ AllDigits(SubSeq(s, 1, 4)) /\ AllDigits(SubSeq(s, 6, 7))
    /\ AllDigits(SubSeq(s, 9, 10))
    /\ DigitsToNat(SubSeq(s, 6, 7)) \in 1..12
    /\ DigitsToNat(SubSeq(s, 9, 10)) >= 1
    /\ DigitsToNat(SubSeq(s, 9, 10))
          <= DaysInMonth(DigitsToNat(SubSeq(s, 1, 4)), DigitsToNat(SubSeq(s, 6, 7)))

HasDigit(s) == \E i \in 1..Len(s) : IsDigitChar(CharAt(s, i))

\* isNaN(Date.parse(value)): the language fixes the result for the ISO
\* format only; text with no digit is a date for no engine; any other text
\* is read by the engine's own formats (lenientDates) or is NaN
IsNaNDate(value, lenientDates) ==
    IF IsIsoDate(ToStringValue(value)) THEN FALSE
    ELSE IF ~HasDigit(ToStringValue(value)) THEN TRUE
    ELSE ~lenientDates

(***************************************************************************)
(* Schema Model: the designer's state and handlers (TableDesigner.jsx).    *)
(***************************************************************************)
NoDbConfig == [undefined |-> TRUE]

\* line 7
InitialColumn ==
    [name |-> "ID", dataType |-> "BIGINT", isPrimaryKey |-> TRUE,
     isNullable |-> FALSE, isIdentity |-> TRUE, isFixed |-> TRUE]

\* line 128
DefaultColumn ==
    [name |-> "", dataType |-> "Text", isPrimaryKey |-> FALSE,
     isNullable |-> TRUE, isIdentity |-> FALSE, isFixed |-> FALSE]

NotEmptyString(v) == v # ""

\* lines 149-157; the listValues read are those of the handler's closure
NewListColumn(closureListValues) ==
    [name |-> "", dataType |-> "List", isPrimaryKey |-> FALSE,
     isNullable |-> TRUE, isIdentity |-> FALSE, isFixed |-> FALSE,
     listValues |-> FilterSeq(NotEmptyString,
                              MapSeq(Trim, Split(closureListValues, ",")))]

\* lines 175-184
NewReferenceColumn(refTable, displayCols) ==
    [name |-> refTable \o "ID", dataType |-> "Reference", isPrimaryKey |-> FALSE,
     isNullable |-> TRUE, isIdentity |-> FALSE, isFixed |-> FALSE,
     referenceTable |-> refTable, displayColumns |-> displayCols]

\* updatedColumns.findIndex(col => col.isPrimaryKey), 1-based; 0 for -1
PkColumnIndex(cols) ==
    LET hits == {i \in 1..Len(cols) : cols[i].isPrimaryKey}
    IN  IF hits = {} THEN 0 ELSE CHOOSE i \in hits : \A j \in hits : i <= j

\* variants for sensitivity checks: line 48 without line 49, and no test
\* at all
OnlyDefaultNameLooksAutoDerived(name) == name = "ID"

EveryNameLooksAutoDerived(name) == TRUE

\* line 48-49: the primary key's name still follows the pattern
LooksAutoDerived(name) == name = "ID" \/ EndsWith(name, "ID")

\* lines 41-56: the columns after the effect that follows a change of the
\* table name
RenamePrimaryKey(newTableName, cols) ==
    LET pk == PkColumnIndex(cols)
    IN  IF newTableName # "" /\ pk # 0 /\ LooksAutoDerived(cols[pk].name)
        THEN [cols EXCEPT ![pk].name = newTableName \o "ID"]
        ELSE cols

\* whether that effect calls setColumns and schedules generateSQL
EffectRenames(newTableName, cols) ==
    LET pk == PkColumnIndex(cols)
    IN  newTableName # "" /\ pk # 0 /\ LooksAutoDerived(cols[pk].name)

\* variant for sensitivity checks: the promotion of lines 105-106 without
\* the loop of lines 98-102
PromotesWithoutDemoting(cols, index, field, value) ==
    IF field = "isPrimaryKey" /\ value = TRUE
    THEN [cols EXCEPT ![index].isPrimaryKey = TRUE, ![index].isNullable = FALSE]
    ELSE [cols EXCEPT ![index][field] = value]

\* lines 95-115: updatedColumns after handleColumnChange, when it does not
\* return early
ChangedColumns(cols, index, field, value) ==
    IF field = "isPrimaryKey" /\ value = TRUE
    THEN [i \in 1..Len(cols) |->
            IF i = index
            THEN [cols[i] EXCEPT !.isPrimaryKey = TRUE, !.isNullable = FALSE]
            ELSE IF cols[i].isPrimaryKey
                 THEN [cols[i] EXCEPT !.isPrimaryKey = FALSE]
                 ELSE cols[i]]
    ELSE [cols EXCEPT ![index][field] = value]

\* variant for sensitivity checks: handleColumnChange without the early
\* return of lines 109-111
NeverRejectsChange(cols, index, field, value) == FALSE

\* lines 108-111: the early return of handleColumnChange
ChangeRejected(cols, index, field, value) ==
    /\ ~(field = "isPrimaryKey" /\ value = TRUE)
    /\ cols[index].isPrimaryKey
    /\ field = "isNullable"
    /\ value = TRUE

\* variant for sensitivity checks: removeColumn without the guard of
\* lines 241-243
NeverRejectsRemoval(cols, index) == FALSE

\* line 241: removeColumn returns early
RemoveRejected(cols, index) == cols[index].isPrimaryKey

\* variant for sensitivity checks: line 245 dropping the last column
RemovesLastColumn(cols, index) == SubSeq(cols, 1, Len(cols) - 1)

\* line 245
RemovedColumns(cols, index) ==
    [i \in 1..(Len(cols) - 1) |-> IF i < index THEN cols[i] ELSE cols[i + 1]]

\* a pending setTimeout callback: generateSQL(tn, cols), preceded by the
\* resets the callback makes
Timer(resets, tn, cols) == [resets |-> resets, tn |-> tn, cols |-> cols]

(***************************************************************************)
(* Inputs of the handlers.                                                 *)
(***************************************************************************)
TableNameInputs == {"", "Customer", "Client"}

\* texts typed into a column's name field
ColumnNameInputs == {"", "CustKey"}

\* names a user gives the primary-key column by hand
ManualKeyNames == {"CustKey", "UUID"}

\* options picked in a column's type select (lines 673-675)
DataTypeChoices == {userFriendlyDataTypes[1], userFriendlyDataTypes[2]}

\* texts typed into the list dialog
ListValuesInputs == {"", "Red, Blue", " , "}

\* what the reference dialog holds when Confirm is clicked: the id of one of
\* the availableTables of lines 69-73 ('' for no selection) and the checked
\* display columns
ReferenceSelections ==
    {[table |-> "", displayColumns |-> <<>>],
     [table |-> "customers", displayColumns |-> <<"Name", "Email">>]}

Indices(cols) == 1..Len(cols)

\* The designer takes a user event once the pending callbacks have run, until
\* its table is created; the dialogs cover the page (lines 395 and 491), so
\* the page below takes events only while no dialog is shown.
UserMayAct == timers = <<>> /\ ~IsDefined(lastRequest)

PageMayAct == UserMayAct /\ ~showListValuesModal /\ ~showTableReferenceModal

(***************************************************************************)
(* Initial state: the designer after its first render, nothing created.    *)
(***************************************************************************)
\* part_000 lines 16-25
InitialAppConfig == [databricks |-> [catalog |-> "", schema |-> "default"]]

\* server.js lines 14-23 with no environment variable set
BootConfig == [databricks |-> [catalog |-> "main", schema |-> "default"]]

\* the shell, and the adapter after the server has started
AdapterInit ==
    /\ appDbConfig = InitialAppConfig
    /\ adapterDbConfig = BootConfig
    /\ databricksClient = Undefined
    /\ clients = <<>>
    /\ calls = <<>>
    /\ executed = Undefined

Init ==
    /\ tableName = ""
    /\ columns = <<InitialColumn>>
    /\ generatedSQL = ""
    /\ showListValuesModal = FALSE
    /\ showTableReferenceModal = FALSE
    /\ listValues = ""
    /\ selectedRefTable = ""
    /\ selectedDisplayColumns = <<>>
    /\ timers = <<>>
    /\ dbConfig = NoDbConfig
    /\ lastRequest = Undefined
    /\ store = Undefined
    /\ gridColumns = <<>>
    /\ primaryKeyColumn = Undefined
    /\ gridError = ""
    /\ table = Undefined
    /\ data = <<>>
    /\ isModalOpen = FALSE
    /\ modalMode = "add"
    /\ currentRow = <<>>
    /\ validationErrors = <<>>
    /\ gridRequest = Undefined
    /\ currentPage = 0
    /\ AdapterInit

(***************************************************************************)
(* Handlers.  A handler reads the state of the render it was created in,   *)
(* and its setState calls take effect together when it returns.  A         *)
(* setTimeout(..., 0) callback keeps the closure of that render: called    *)
(* without arguments, generateSQL reads that render's tableName and        *)
(* columns.  The callbacks run before the next user event.                 *)
(***************************************************************************)
\* lines 82-90 and the effect of lines 41-56
HandleTableNameChange(newTableName) ==
    /\ PageMayAct
    /\ tableName' = newTableName
    /\ LET runsEffect == newTableName # tableName
           renames    == runsEffect /\ EffectRenames(newTableName, columns)
           after      == IF renames THEN RenamePrimaryKey(newTableName, columns)
                         ELSE columns
       IN  /\ columns' = after
           /\ timers' = <<Timer(<<>>, newTableName, after)>>
                        \o (IF renames THEN <<Timer(<<>>, newTableName, after)>>
                            ELSE <<>>)
    /\ UNCHANGED <<generatedSQL, showListValuesModal, showTableReferenceModal,
                   listValues, selectedRefTable, selectedDisplayColumns,
                   dbConfig, adapterVars, lastRequest, store, gridVars>>

RenameTable == \E n \in TableNameInputs : HandleTableNameChange(n)

\* lines 92-123
HandleColumnChange(index, field, value) ==
    /\ PageMayAct
    /\ index \in Indices(columns)
    /\ IF ChangeRejected(columns, index, field, value)
       THEN UNCHANGED <<columns, timers>>
       ELSE /\ columns' = ChangedColumns(columns, index, field, value)
            /\ timers' = <<Timer(<<>>, tableName,
                                 ChangedColumns(columns, index, field, value))>>
    /\ UNCHANGED <<tableName, generatedSQL, showListValuesModal,
                   showTableReferenceModal, listValues, selectedRefTable,
                   selectedDisplayColumns, dbConfig, adapterVars, lastRequest, store, gridVars>>

\* line 652
EditColumnName ==
    \E i \in Indices(columns), n \in ColumnNameInputs :
        HandleColumnChange(i, "name", n)

\* line 652, on the row of the primary key
EditPrimaryKeyName ==
    \E i \in Indices(columns), n \in ManualKeyNames :
        /\ columns[i].isPrimaryKey
        /\ HandleColumnChange(i, "name", n)

\* lines 660-682: the select exists for columns that are neither fixed, List
\* nor Reference
EditColumnDataType ==
    \E i \in Indices(columns), t \in DataTypeChoices :
        /\ ~columns[i].isFixed
        /\ columns[i].dataType \notin {"List", "Reference"}
        /\ HandleColumnChange(i, "dataType", t)

\* lines 686-706: the check box exists for columns that are neither List nor
\* Reference
SetNullable ==
    \E i \in Indices(columns), v \in BOOLEAN :
        /\ columns[i].dataType \notin {"List", "Reference"}
        /\ HandleColumnChange(i, "isNullable", v)

\* handleColumnChange(index, 'isPrimaryKey', true)
SetPrimaryKey ==
    \E i \in Indices(columns) : HandleColumnChange(i, "isPrimaryKey", TRUE)

\* lines 125-132
AddColumn ==
    /\ PageMayAct
    /\ Len(columns) < MaxColumns
    /\ columns' = Append(columns, DefaultColumn)
    /\ timers' = <<Timer(<<>>, tableName, columns)>>
    /\ UNCHANGED <<tableName, generatedSQL, showListValuesModal,
                   showTableReferenceModal, listValues, selectedRefTable,
                   selectedDisplayColumns, dbConfig, adapterVars, lastRequest, store, gridVars>>

\* lines 134-138
AddListColumn ==
    /\ PageMayAct
    /\ listValues' = ""
    /\ showListValuesModal' = TRUE
    /\ UNCHANGED <<tableName, columns, generatedSQL, showTableReferenceModal,
                   selectedRefTable, selectedDisplayColumns, timers,
                   dbConfig, adapterVars, lastRequest, store, gridVars>>

\* line 410
CancelListValues ==
    /\ UserMayAct
    /\ showListValuesModal
    /\ showListValuesModal' = FALSE
    /\ UNCHANGED <<tableName, columns, generatedSQL, showTableReferenceModal,
                   listValues, selectedRefTable, selectedDisplayColumns, timers,
                   dbConfig, adapterVars, lastRequest, store, gridVars>>

\* lines 386-390 and 147-167: setListValues(localListValues), then
\* handleListValuesConfirm() of the same render, which still reads listValues
\* as it was rendered
ConfirmListValuesWith(localListValues) ==
    /\ UserMayAct
    /\ showListValuesModal
    /\ Trim(localListValues) # ""    \* line 418: disabled={!localListValues.trim()}
    /\ Len(columns) < MaxColumns
    /\ listValues' = localListValues
    /\ columns' = Append(columns, NewListColumn(listValues))
    /\ showListValuesModal' = FALSE
    /\ timers' = <<Timer(<<"listValues">>, tableName, columns)>>
    /\ UNCHANGED <<tableName, generatedSQL, showTableReferenceModal,
                   selectedRefTable, selectedDisplayColumns,
                   dbConfig, adapterVars, lastRequest, store, gridVars>>

\* lines 414-421: the Confirm button of the list dialog
ConfirmListValues ==
    \E localListValues \in ListValuesInputs :
        ConfirmListValuesWith(localListValues)

\* lines 140-145
AddTableReferenceColumn ==
    /\ PageMayAct
    /\ selectedRefTable' = ""
    /\ selectedDisplayColumns' = <<>>
    /\ showTableReferenceModal' = TRUE
    /\ UNCHANGED <<tableName, columns, generatedSQL, showListValuesModal,
                   listValues, timers, dbConfig, adapterVars, lastRequest, store, gridVars>>

\* line 536
CancelTableReference ==
    /\ UserMayAct
    /\ showTableReferenceModal
    /\ showTableReferenceModal' = FALSE
    /\ UNCHANGED <<tableName, columns, generatedSQL, showListValuesModal,
                   listValues, selectedRefTable, selectedDisplayColumns, timers,
                   dbConfig, adapterVars, lastRequest, store, gridVars>>

\* lines 472-477 and 169-195: the two setters, then
\* handleTableReferenceConfirm() of the same render, which still reads
\* selectedRefTable and selectedDisplayColumns as they were rendered
ConfirmTableReferenceWith(selection) ==
    /\ UserMayAct
    /\ showTableReferenceModal
    /\ selection.table # ""          \* line 544: disabled={!localSelectedRefTable}
    /\ selectedRefTable' = selection.table
    /\ selectedDisplayColumns' = selection.displayColumns
    /\ IF selectedRefTable = ""
       THEN UNCHANGED <<columns, showTableReferenceModal, timers>>
       ELSE /\ Len(columns) < MaxColumns
            /\ columns' = Append(columns,
                                 NewReferenceColumn(selectedRefTable,
                                                    selectedDisplayColumns))
            /\ showTableReferenceModal' = FALSE
            /\ timers' = <<Timer(<<"selectedRefTable", "selectedDisplayColumns">>,
                                 tableName, columns)>>
    /\ UNCHANGED <<tableName, generatedSQL, showListValuesModal, listValues,
                   dbConfig, adapterVars, lastRequest, store, gridVars>>

\* lines 540-547: the Confirm button of the reference dialog
ConfirmTableReference ==
    \E selection \in ReferenceSelections :
        ConfirmTableReferenceWith(selection)

\* lines 239-249
RemoveColumnAt(index) ==
    /\ PageMayAct
    /\ index \in Indices(columns)
    /\ IF RemoveRejected(columns, index)
       THEN UNCHANGED <<columns, timers>>
       ELSE /\ columns' = RemovedColumns(columns, index)
            /\ timers' = <<Timer(<<>>, tableName, RemovedColumns(columns, index))>>
    /\ UNCHANGED <<tableName, generatedSQL, showListValuesModal,
                   showTableReferenceModal, listValues, selectedRefTable,
                   selectedDisplayColumns, dbConfig, adapterVars, lastRequest, store, gridVars>>

\* line 711
RemoveColumn == \E index \in Indices(columns) : RemoveColumnAt(index)

\* the event loop runs the oldest pending setTimeout callback
RunTimer ==
    /\ timers # <<>>
    /\ LET t == Head(timers)
           resetsField(f) == \E i \in 1..Len(t.resets) : t.resets[i] = f
       IN  /\ generatedSQL' = GenerateSQL(t.tn, t.cols, dbConfig)
           /\ listValues' = IF resetsField("listValues") THEN "" ELSE listValues
           /\ selectedRefTable' =
                  IF resetsField("selectedRefTable") THEN "" ELSE selectedRefTable
           /\ selectedDisplayColumns' =
                  IF resetsField("selectedDisplayColumns") THEN <<>>
                  ELSE selectedDisplayColumns
    /\ timers' = Tail(timers)
    /\ UNCHANGED <<tableName, columns, showListValuesModal,
                   showTableReferenceModal, dbConfig, adapterVars, lastRequest, store, gridVars>>

\* lines 350-359: the tableMetadata of the create request
MetadataColumn(col) ==
    [name |-> col.name, dataType |-> col.dataType,
     isPrimaryKey |-> col.isPrimaryKey, isNullable |-> col.isNullable,
     isIdentity |-> col.isIdentity,
     listValues |-> IF "listValues" \in DOMAIN col
                    THEN Defined(col.listValues) ELSE Undefined,
     referenceTable |-> IF "referenceTable" \in DOMAIN col
                        THEN Defined(col.referenceTable) ELSE Undefined,
     displayColumns |-> IF "displayColumns" \in DOMAIN col
                        THEN Defined(col.displayColumns) ELSE Undefined]

\* lines 328-379, server.js lines 90-104 and part_001 lines 229-231: the
\* designer generates the SQL once more and posts it; the store creates the
\* table, keeping the text of the block comments or dropping it
CreateTable ==
    /\ PageMayAct
    /\ generatedSQL' = GenerateSQL(tableName, columns, dbConfig)
    /\ IF GenerateSQL(tableName, columns, dbConfig) = ""
       THEN UNCHANGED <<lastRequest, store>>
       ELSE /\ lastRequest' =
                  Defined([sql |-> GenerateSQL(tableName, columns, dbConfig),
                           tableMetadata |-> MapSeq(MetadataColumn, columns)])
            /\ \E keepsComments \in BOOLEAN :
                  store' = Defined(DescribeTable(
                               GenerateSQL(tableName, columns, dbConfig),
                               keepsComments))
    /\ UNCHANGED <<tableName, columns, showListValuesModal,
                   showTableReferenceModal, listValues, selectedRefTable,
                   selectedDisplayColumns, timers, dbConfig, adapterVars, gridVars>>

(***************************************************************************)
(* Row objects: the entries of an object in insertion order.               *)
(***************************************************************************)
Entry(key, value) == [key |-> key, value |-> value]

HasKey(row, key) == \E i \in 1..Len(row) : row[i].key = key

\* row[key]
RowGet(row, key) ==
    IF HasKey(row, key)
    THEN row[CHOOSE i \in 1..Len(row) : row[i].key = key].value
    ELSE UndefinedValue

\* row[key] = value
RowSet(row, key, value) ==
    IF HasKey(row, key)
    THEN [i \in 1..Len(row) |->
             IF row[i].key = key THEN Entry(key, value) ELSE row[i]]
    ELSE Append(row, Entry(key, value))

\* delete row[key]
RowDelete(row, key) == SelectSeq(row, LAMBDA e : e.key # key)

\* Object.keys(row)
RowKeys(row) == [i \in 1..Len(row) |-> row[i].key]

\* column.friendlyType || mapSqlTypeToFriendlyType(column.dataType)
FriendlyTypeOf(column) ==
    IF column.friendlyType # "" THEN column.friendlyType
    ELSE mapSqlTypeToFriendlyType(Defined(column.dataType), Undefined)

\* DataGridView.jsx lines 246-265: the default value of a column
EmptyValue(column) ==
    CASE FriendlyTypeOf(column) \in {"Number", "Reference"} -> Null
      [] FriendlyTypeOf(column) = "True/False"              -> Bool(FALSE)
      [] OTHER                                              -> Str("")

\* DataGridView.jsx lines 242-269, the row it gives to setCurrentRow
RECURSIVE EmptyRowFrom(_, _)
EmptyRowFrom(emptyRow, cols) ==
    IF Len(cols) = 0 THEN emptyRow
    ELSE EmptyRowFrom(RowSet(emptyRow, cols[1].name, EmptyValue(cols[1])),
                      Tail(cols))

initializeEmptyRow(cols) == EmptyRowFrom(<<>>, cols)

\* DataGridView.jsx line 342, and lines 686, 699-723 of renderFieldInput
TreatedAsPrimaryKey(column) ==
    \/ column.isPrimaryKey
    \/ /\ ~Falsy(primaryKeyColumn)
       /\ column.name = ValueOf(primaryKeyColumn)

\* a membership test that looks at the first allowed value only
IsFirstOfList(list, value) == Len(list) > 0 /\ value = Str(list[1])

\* column.listValues.includes(value)
ListIncludes(list, value) ==
    \E i \in 1..Len(list) : value = Str(list[i])

\* variant for sensitivity checks: lines 345-351 in the other order
ChecksEmptinessFirst(column, value, lenientDates) ==
    IF /\ ~column.isNullable
       /\ (IsNull(value) \/ IsUndefinedValue(value) \/ IsEmptyString(value))
    THEN Defined(column.name \o " cannot be empty")
    ELSE IF TreatedAsPrimaryKey(column) /\ modalMode = "add" THEN Undefined
    ELSE CASE FriendlyTypeOf(column) = "Number" ->
                IF ~IsEmptyString(value) /\ ~IsNull(value) /\ IsNaNNumber(value)
                THEN Defined(column.name \o " must be a valid number")
                ELSE Undefined
           [] FriendlyTypeOf(column) = "Date" ->
                IF /\ ~IsEmptyString(value) /\ ~IsNull(value)
                   /\ IsNaNDate(value, lenientDates)
                THEN Defined(column.name \o " must be a valid date")
                ELSE Undefined
           [] FriendlyTypeOf(column) = "List" ->
                IF Truthy(value) /\ ~ListIncludes(column.listValues, value)
                THEN Defined(column.name \o " must be one of the allowed values: "
                             \o Join(column.listValues, ", "))
                ELSE Undefined
           [] FriendlyTypeOf(column) = "Reference" ->
                IF ~IsNull(value) /\ ~IsEmptyString(value) /\ IsNaNNumber(value)
                THEN Defined(column.name \o " must be a valid reference ID")
                ELSE Undefined
           [] OTHER -> Undefined

\* DataGridView.jsx lines 341-381: undefined for null, else the message
validateField(column, value, lenientDates) ==
    IF TreatedAsPrimaryKey(column) /\ modalMode = "add" THEN Undefined
    ELSE IF /\ ~column.isNullable
            /\ (IsNull(value) \/ IsUndefinedValue(value) \/ IsEmptyString(value))
    THEN Defined(column.name \o " cannot be empty")
    ELSE CASE FriendlyTypeOf(column) = "Number" ->
                IF ~IsEmptyString(value) /\ ~IsNull(value) /\ IsNaNNumber(value)
                THEN Defined(column.name \o " must be a valid number")
                ELSE Undefined
           [] FriendlyTypeOf(column) = "Date" ->
                IF /\ ~IsEmptyString(value) /\ ~IsNull(value)
                   /\ IsNaNDate(value, lenientDates)
                THEN Defined(column.name \o " must be a valid date")
                ELSE Undefined
           [] FriendlyTypeOf(column) = "List" ->
                IF Truthy(value) /\ ~ListIncludes(column.listValues, value)
                THEN Defined(column.name \o " must be one of the allowed values: "
                             \o Join(column.listValues, ", "))
                ELSE Undefined
           [] FriendlyTypeOf(column) = "Reference" ->
                IF ~IsNull(value) /\ ~IsEmptyString(value) /\ IsNaNNumber(value)
                THEN Defined(column.name \o " must be a valid reference ID")
                ELSE Undefined
           [] OTHER -> Undefined

\* validateForm stopping at the first column in error
RECURSIVE StopsAtFirstError(_, _, _)
StopsAtFirstError(errors, cols, lenientDates) ==
    IF Len(cols) = 0 \/ Len(errors) > 0 THEN errors
    ELSE LET error == validateField(cols[1], RowGet(currentRow, cols[1].name),
                                    lenientDates)
         IN  StopsAtFirstError(IF ~Falsy(error)
                               THEN RowSet(errors, cols[1].name, ValueOf(error))
                               ELSE errors,
                               Tail(cols), lenientDates)

\* DataGridView.jsx lines 388-394: the forEach over the columns
RECURSIVE ErrorsFrom(_, _, _)
ErrorsFrom(errors, cols, lenientDates) ==
    IF Len(cols) = 0 THEN errors
    ELSE LET error == validateField(cols[1], RowGet(currentRow, cols[1].name),
                                    lenientDates)
         IN  ErrorsFrom(IF ~Falsy(error)
                        THEN RowSet(errors, cols[1].name, ValueOf(error))
                        ELSE errors,
                        Tail(cols), lenientDates)

\* DataGridView.jsx lines 384-398: the errors it sets and what it returns
validateForm(lenientDates) ==
    [errors  |-> ErrorsFrom(<<>>, gridColumns, lenientDates),
     isValid |-> \A i \in 1..Len(gridColumns) :
                     Falsy(validateField(gridColumns[i],
                                         RowGet(currentRow, gridColumns[i].name),
                                         lenientDates))]

NotIdKey(key) == ToLowerCase(key) # "id"

\* part_001 lines 239-271: the statement of insertRow, undefined when it
\* throws 'No data provided for insertion'
InsertParam(i) == "@p" \o NumberToString(i - 1)

insertRow(tableId, rowData) ==
    LET insertColumns == FilterSeq(NotIdKey, RowKeys(rowData))
        paramNames    == [i \in 1..Len(insertColumns) |-> InsertParam(i)]
    IN  IF Len(insertColumns) = 0 THEN Undefined
        ELSE Defined([columns |-> insertColumns,
                      sql |-> "INSERT INTO " \o tableId \o " ("
                              \o Join(insertColumns, ", ") \o ") VALUES ("
                              \o Join(paramNames, ", ") \o ")"])

\* variant for sensitivity checks: lines 141-154 looking at the names
\* before the flags
PrefersNamedKey(result) ==
    LET mappedColumns == MapSeq(MappedColumn, result.columns)
        pkColumn      == Find(FlaggedPrimaryKey, mappedColumns)
        idColumn      == Find(NameEndsWithId, mappedColumns)
    IN  /\ gridColumns' = mappedColumns
        /\ primaryKeyColumn' =
               IF IsDefined(idColumn) THEN Defined(ValueOf(idColumn).name)
               ELSE IF IsDefined(pkColumn) THEN Defined(ValueOf(pkColumn).name)
               ELSE primaryKeyColumn
        /\ gridError' =
               IF IsDefined(pkColumn) \/ IsDefined(idColumn) THEN ""
               ELSE NoPrimaryKeyWarning
        /\ currentRow' = initializeEmptyRow(mappedColumns)
        /\ gridRequest' = Undefined
        /\ UNCHANGED <<designerVars, dbConfig, adapterVars, lastRequest, store, table, data,
                       isModalOpen, modalMode, validationErrors, currentPage>>

\* DataGridView.jsx lines 101-179 on a 200 response of
\* GET /api/tables/:id/structure
FetchTableStructureFrom(result) ==
    LET mappedColumns == MapSeq(MappedColumn, result.columns)
        pkColumn      == Find(FlaggedPrimaryKey, mappedColumns)
        idColumn      == Find(NameEndsWithId, mappedColumns)
    IN  /\ gridColumns' = mappedColumns
        /\ primaryKeyColumn' =
               IF IsDefined(pkColumn) THEN Defined(ValueOf(pkColumn).name)
               ELSE IF IsDefined(idColumn) THEN Defined(ValueOf(idColumn).name)
               ELSE primaryKeyColumn
        /\ gridError' =
               IF IsDefined(pkColumn) \/ IsDefined(idColumn) THEN ""
               ELSE NoPrimaryKeyWarning
        /\ currentRow' = initializeEmptyRow(mappedColumns)
        /\ gridRequest' = Undefined
        /\ UNCHANGED <<designerVars, dbConfig, adapterVars, lastRequest, store, table, data,
                       isModalOpen, modalMode, validationErrors, currentPage>>

\* the same on the response of server.js lines 60-72 for the created table
FetchTableStructure ==
    /\ IsDefined(store)
    /\ FetchTableStructureFrom([columns |-> getTableStructure(ValueOf(store))])

(***************************************************************************)
(* The data grid (DataGridView.jsx): the rows of the opened table, the     *)
(* add and edit form, and the requests it sends.                           *)
(***************************************************************************)
\* a column of GET /api/tables/:id/structure
ServerColumn(name, dataType, isNullable, isPrimaryKey) ==
    [name |-> name, dataType |-> dataType, length |-> 0, precision |-> 0,
     scale |-> 0, isNullable |-> isNullable, isPrimaryKey |-> isPrimaryKey]

CommentedColumn(name, dataType, isNullable, comment) ==
    [name |-> name, dataType |-> dataType, length |-> 0, precision |-> 0,
     scale |-> 0, isNullable |-> isNullable, isPrimaryKey |-> FALSE,
     comment |-> Defined(comment)]

\* a table with a flagged key, a required text, a list and a number, and
\* the rows its backend returns
OrdersTable ==
    [id      |-> "main.default.Orders",
     columns |-> <<ServerColumn("OrdersID", "BIGINT", FALSE, TRUE),
                   ServerColumn("Title", "STRING", FALSE, FALSE),
                   CommentedColumn("Color", "STRING", TRUE,
                                   "ALLOWED VALUES: Red, Blue"),
                   ServerColumn("Amount", "DOUBLE", TRUE, FALSE)>>,
     rows    |-> << <<Entry("OrdersID", Num(1)), Entry("Title", Str("")),
                      Entry("Color", Str("Green")), Entry("Amount", Str("abc"))>>,
                    <<Entry("OrdersID", Num(2)), Entry("Title", Str("Desk")),
                      Entry("Color", Str("Red")), Entry("Amount", Str("Infinity"))>>,
                    <<Entry("OrdersID", Null), Entry("Color", Str("")),
                      Entry("Amount", Null)>> >>]

\* a table with no flagged key and no column named like an id
NotesTable ==
    [id      |-> "main.default.Notes",
     columns |-> <<ServerColumn("Title", "STRING", FALSE, FALSE),
                   ServerColumn("Due", "DATE", TRUE, FALSE),
                   ServerColumn("Done", "BOOLEAN", TRUE, FALSE)>>,
     rows    |-> << <<Entry("Title", Str("Call")), Entry("Due", Str("2024-02-29")),
                      Entry("Done", Bool(TRUE))>>,
                    <<Entry("Title", Null), Entry("Due", Str("soon")),
                      Entry("Done", Bool(FALSE))>>,
                    <<Entry("Title", Str("Pay")), Entry("Due", Str("5")),
                      Entry("Done", Null)>> >>]

\* a table whose key is found by its name only, with a reference
LegacyTable ==
    [id      |-> "main.default.Legacy",
     columns |-> <<ServerColumn("Code", "STRING", TRUE, FALSE),
                   ServerColumn("LegacyId", "INT", TRUE, FALSE),
                   CommentedColumn("customersID", "BIGINT", TRUE,
                                   "REFERENCES: customers (DISPLAY: Name)")>>,
     rows    |-> << <<Entry("Code", Str("A")), Entry("LegacyId", Num(7)),
                      Entry("customersID", Str("x"))>>,
                    <<Entry("Code", Str("B")), Entry("LegacyId", Num(8)),
                      Entry("customersID", Str("-Infinity"))>>,
                    <<Entry("Code", Str("C")), Entry("customersID", Num(7))>> >>]

GridTables == {OrdersTable, NotesTable, LegacyTable}

\* the most rows the backend holds of the table with more than one page
MaxPagedRows == 16

\* the first n rows of that table
EventRows(n) == [i \in 1..n |-> <<Entry("EventsID", Num(i))>>]

\* a table whose rows fill more than one page of the grid
EventsTable ==
    [id      |-> "main.default.Events",
     columns |-> <<ServerColumn("EventsID", "BIGINT", FALSE, TRUE)>>,
     rows    |-> EventRows(MaxPagedRows)]

\* part_001 line 174: the id of the created table in the table list
CreatedTableId == CatalogOf(dbConfig) \o "." \o SchemaOf(dbConfig) \o "." \o tableName

\* the value a stored row holds in a column
StoredValue(column) ==
    CASE FriendlyTypeOf(column) = "Number"     -> Num(1)
      [] FriendlyTypeOf(column) = "True/False" -> Bool(TRUE)
      [] FriendlyTypeOf(column) = "Date"       -> Str("2024-02-29")
      [] OTHER                                 -> Str("abc")

StoredRow(cols) == [i \in 1..Len(cols) |-> Entry(cols[i].name, StoredValue(cols[i]))]

\* what GET /api/tables/:id/data may return for the opened table
DataResponses ==
    IF table = Defined([id |-> EventsTable.id])
    THEN {EventRows(MaxPagedRows - 1), EventsTable.rows}
    ELSE IF \E t \in GridTables : Defined([id |-> t.id]) = table
    THEN LET t == CHOOSE t \in GridTables : Defined([id |-> t.id]) = table
         IN  {<<>>, t.rows}
    ELSE IF IsDefined(store)
    THEN {<<>>, <<StoredRow(MapSeq(MappedColumn, getTableStructure(ValueOf(store))))>>}
    ELSE {<<>>}

\* what the inputs of renderFieldInput (lines 685-848) pass to
\* handleInputChange for a column
InputValues(column) ==
    CASE FriendlyTypeOf(column) = "List" ->
             {Str("")} \cup {Str(column.listValues[i]) : i \in 1..Len(column.listValues)}
      [] FriendlyTypeOf(column) = "Reference"  -> {Null, Num(7)}
      [] FriendlyTypeOf(column) = "Number"     -> {Null, Num(5)}
      [] FriendlyTypeOf(column) = "Date"       -> {Str(""), Str("2024-02-29")}
      [] FriendlyTypeOf(column) = "True/False" -> {Bool(TRUE), Bool(FALSE)}
      [] OTHER                                 -> {Str(""), Str("Desk")}

DataUrl == "http://localhost:5000/api/tables/" \o ValueOf(table).id \o "/data"

\* lines 431, 519
RowUrl(pkValue) ==
    DataUrl \o "/" \o ToStringValue(pkValue) \o "?pkColumn=" \o ValueOf(primaryKeyColumn)

\* how a request of the grid ends: a 2xx response, the 500 response of
\* server.js, or no response
Outcomes == {"ok", "failed", "unreachable"}

GridIdle == IsDefined(table) /\ ~isModalOpen

\* part_000 lines 72-75 and 147-150: a table of the list is opened and a
\* new grid is mounted on it
MountGrid(id) ==
    /\ table' = Defined([id |-> id])
    /\ gridColumns' = <<>>
    /\ primaryKeyColumn' = Undefined
    /\ gridError' = ""
    /\ data' = <<>>
    /\ isModalOpen' = FALSE
    /\ modalMode' = "add"
    /\ currentRow' = <<>>
    /\ validationErrors' = <<>>
    /\ gridRequest' = Undefined
    /\ currentPage' = 0
    /\ UNCHANGED <<designerVars, dbConfig, adapterVars, lastRequest, store>>

\* a table of the backend is opened, from the list or after going back
OpenTable ==
    \E t \in GridTables :
        /\ ~isModalOpen
        /\ table # Defined([id |-> t.id])
        /\ MountGrid(t.id)

\* the table with more than one page is opened
OpenEventsTable ==
    /\ ~isModalOpen
    /\ table # Defined([id |-> EventsTable.id])
    /\ MountGrid(EventsTable.id)

\* the created table is opened
HandleTableSelect ==
    /\ IsDefined(store)
    /\ ~IsDefined(table)
    /\ MountGrid(CreatedTableId)

\* lines 36-41: the structure of the created table arrives
LoadCreatedTable ==
    /\ IsDefined(table)
    /\ gridColumns = <<>>
    /\ FetchTableStructure

\* lines 36-41: the structure of a table of the backend arrives
LoadStructure ==
    /\ IsDefined(table)
    /\ gridColumns = <<>>
    /\ \E t \in GridTables \cup {EventsTable} :
          /\ Defined([id |-> t.id]) = table
          /\ FetchTableStructureFrom([columns |-> t.columns])

\* lines 272-299 on a 200 response
FetchTableData ==
    /\ IsDefined(table)
    /\ \E rows \in DataResponses : data' = rows
    /\ gridError' = ""
    /\ gridRequest' = Undefined
    /\ UNCHANGED <<designerVars, dbConfig, adapterVars, lastRequest, store, gridColumns,
                   primaryKeyColumn, table, isModalOpen, modalMode, currentRow,
                   validationErrors, currentPage>>

\* line 9
rowsPerPage == 15

\* line 576: Math.ceil(data.length / rowsPerPage)
totalPages == (Len(data) + rowsPerPage - 1) \div rowsPerPage

\* lines 577-580: data.slice(currentPage * rowsPerPage,
\* (currentPage + 1) * rowsPerPage)
paginatedData ==
    LET first == currentPage * rowsPerPage + 1
        last  == IF (currentPage + 1) * rowsPerPage < Len(data)
                 THEN (currentPage + 1) * rowsPerPage ELSE Len(data)
    IN  IF first > last THEN <<>> ELSE SubSeq(data, first, last)

\* lines 582-586
handlePrevPage ==
    /\ GridIdle
    /\ currentPage > 0
    /\ currentPage' = currentPage - 1
    /\ UNCHANGED <<designerVars, dbConfig, adapterVars, lastRequest, store,
                   gridColumns, primaryKeyColumn, gridError, table, data,
                   isModalOpen, modalMode, currentRow, validationErrors,
                   gridRequest>>

\* lines 588-592
handleNextPage ==
    /\ GridIdle
    /\ currentPage < totalPages - 1
    /\ currentPage' = currentPage + 1
    /\ UNCHANGED <<designerVars, dbConfig, adapterVars, lastRequest, store,
                   gridColumns, primaryKeyColumn, gridError, table, data,
                   isModalOpen, modalMode, currentRow, validationErrors,
                   gridRequest>>

\* lines 302-309, from the Edit button of a row of the page (line 1016)
OpenEditModal ==
    \E rowIndex \in 1..Len(paginatedData) :
        /\ GridIdle
        /\ currentRow' = data[currentPage * rowsPerPage + rowIndex]
        /\ modalMode' = "edit"
        /\ validationErrors' = <<>>
        /\ isModalOpen' = TRUE
        /\ gridRequest' = Undefined
        /\ UNCHANGED <<designerVars, dbConfig, adapterVars, lastRequest, store, gridColumns,
                       primaryKeyColumn, gridError, table, data, currentPage>>

\* lines 312-317
OpenAddModal ==
    /\ GridIdle
    /\ currentRow' = initializeEmptyRow(gridColumns)
    /\ modalMode' = "add"
    /\ validationErrors' = <<>>
    /\ isModalOpen' = TRUE
    /\ gridRequest' = Undefined
    /\ UNCHANGED <<designerVars, dbConfig, adapterVars, lastRequest, store, gridColumns,
                   primaryKeyColumn, gridError, table, data, currentPage>>

\* lines 320-323
CloseModal ==
    /\ isModalOpen
    /\ isModalOpen' = FALSE
    /\ validationErrors' = <<>>
    /\ gridRequest' = Undefined
    /\ UNCHANGED <<designerVars, dbConfig, adapterVars, lastRequest, store, gridColumns,
                   primaryKeyColumn, gridError, table, data, modalMode,
                   currentRow, currentPage>>

\* lines 326-338, from an input that is not read-only
HandleInputChange ==
    \E i \in 1..Len(gridColumns) :
      \E value \in InputValues(gridColumns[i]) :
        /\ isModalOpen
        /\ ~TreatedAsPrimaryKey(gridColumns[i])
        /\ currentRow' = RowSet(currentRow, gridColumns[i].name, value)
        /\ validationErrors' = RowDelete(validationErrors, gridColumns[i].name)
        /\ gridRequest' = Undefined
        /\ UNCHANGED <<designerVars, dbConfig, adapterVars, lastRequest, store, gridColumns,
                       primaryKeyColumn, gridError, table, data, isModalOpen,
                       modalMode, currentPage>>

\* lines 474-475 and 272-299: closeModal() and fetchTableData()
SavedAndReloaded ==
    /\ isModalOpen' = FALSE
    /\ validationErrors' = <<>>
    /\ gridError' = ""
    /\ \E rows \in DataResponses : data' = rows

\* lines 477-494
SaveFailed(message) ==
    /\ gridError' = message
    /\ UNCHANGED <<isModalOpen, data>>

\* lines 401-497 with server.js lines 115-150: validateForm, then the
\* request and what the grid does with its outcome
SaveRowIn(lenientDates, outcome) ==
    LET form      == validateForm(lenientDates)
        rowToSave == IF modalMode = "add" /\ ~Falsy(primaryKeyColumn)
                     THEN RowDelete(currentRow, ValueOf(primaryKeyColumn))
                     ELSE currentRow
        pkValue   == RowGet(currentRow, ValueOf(primaryKeyColumn))
        statement == insertRow(ValueOf(table).id, rowToSave)
    IN  /\ isModalOpen
        /\ validationErrors' = form.errors
        /\ IF ~form.isValid
           THEN /\ gridRequest' = Undefined
                /\ UNCHANGED <<gridError, isModalOpen, data>>
           ELSE IF modalMode = "add"
           THEN /\ gridRequest' = Defined([method |-> "POST", url |-> DataUrl,
                                           body |-> rowToSave,
                                           statement |-> statement])
                /\ IF outcome = "unreachable"
                   THEN SaveFailed("Error: Failed to fetch")
                   ELSE IF outcome = "failed" \/ ~IsDefined(statement)
                   THEN SaveFailed("Failed to add row: Failed to insert row")
                   ELSE SavedAndReloaded
           ELSE IF Falsy(primaryKeyColumn)
           THEN /\ SaveFailed("Error: Cannot update row: No primary key column identified")
                /\ gridRequest' = Undefined
           ELSE IF IsUndefinedValue(pkValue) \/ IsNull(pkValue)
           THEN /\ SaveFailed("Error: Cannot update row: Missing primary key value in column \""
                              \o ValueOf(primaryKeyColumn) \o "\"")
                /\ gridRequest' = Undefined
           ELSE /\ gridRequest' = Defined([method |-> "PUT", url |-> RowUrl(pkValue),
                                           body |-> rowToSave,
                                           statement |-> Undefined])
                /\ IF outcome = "unreachable"
                   THEN SaveFailed("Error: Failed to fetch")
                   ELSE IF outcome = "failed"
                   THEN SaveFailed("Failed to update row: Failed to update row")
                   ELSE SavedAndReloaded
        /\ UNCHANGED <<designerVars, dbConfig, adapterVars, lastRequest, store, gridColumns,
                       primaryKeyColumn, table, modalMode, currentRow,
                       currentPage>>

\* line 1164: the Save button of the form
SaveRow ==
    \E lenientDates \in BOOLEAN : \E outcome \in Outcomes :
        SaveRowIn(lenientDates, outcome)

\* deleteRow without its test of primaryKeyColumn
DeletesWithoutKey(row, confirmed, outcome) ==
    /\ GridIdle
    /\ confirmed
    /\ outcome = "failed"
    /\ gridRequest' = Defined([method |-> "DELETE", url |-> DataUrl \o "/undefined",
                               body |-> <<>>, statement |-> Undefined])
    /\ gridError' = "Failed to delete row: Failed to delete row"
    /\ UNCHANGED <<designerVars, dbConfig, adapterVars, lastRequest, store, gridColumns,
                   primaryKeyColumn, table, data, isModalOpen, modalMode,
                   currentRow, validationErrors, currentPage>>

\* lines 500-573 with server.js lines 153-169
DeleteRowOf(row, confirmed, outcome) ==
    LET pkValue == RowGet(row, ValueOf(primaryKeyColumn))
    IN  /\ GridIdle
        /\ IF Falsy(primaryKeyColumn)
           THEN /\ gridError' = "Cannot delete row: No primary key column identified"
                /\ gridRequest' = Undefined
                /\ UNCHANGED data
           ELSE IF IsUndefinedValue(pkValue) \/ IsNull(pkValue)
           THEN /\ gridError' = "Cannot delete row: Missing primary key value in column \""
                                \o ValueOf(primaryKeyColumn) \o "\""
                /\ gridRequest' = Undefined
                /\ UNCHANGED data
           ELSE IF ~confirmed
           THEN /\ gridRequest' = Undefined
                /\ UNCHANGED <<gridError, data>>
           ELSE /\ gridRequest' = Defined([method |-> "DELETE",
                                           url |-> RowUrl(pkValue),
                                           body |-> <<>>,
                                           statement |-> Undefined])
                /\ IF outcome = "unreachable"
                   THEN /\ gridError' = "Error connecting to the server: Failed to fetch"
                        /\ UNCHANGED data
                   ELSE IF outcome = "failed"
                   THEN /\ gridError' = "Failed to delete row: Failed to delete row"
                        /\ UNCHANGED data
                   ELSE /\ gridError' = ""
                        /\ \E rows \in DataResponses : data' = rows
        /\ UNCHANGED <<designerVars, dbConfig, adapterVars, lastRequest, store, gridColumns,
                       primaryKeyColumn, table, isModalOpen, modalMode,
                       currentRow, validationErrors, currentPage>>

\* line 1039: the Delete button of a row
DeleteRow ==
    \E rowIndex \in 1..Len(paginatedData) : \E confirmed \in BOOLEAN :
      \E outcome \in Outcomes :
        DeleteRowOf(paginatedData[rowIndex], confirmed, outcome)

(***************************************************************************)
(* The designer: every handler of the page and of its two dialogs.         *)
(***************************************************************************)
Next ==
    \/ RenameTable
    \/ EditColumnName
    \/ EditColumnDataType
    \/ SetNullable
    \/ SetPrimaryKey
    \/ AddColumn
    \/ AddListColumn
    \/ CancelListValues
    \/ ConfirmListValues
    \/ AddTableReferenceColumn
    \/ CancelTableReference
    \/ ConfirmTableReference
    \/ RemoveColumn
    \/ RunTimer

Spec == Init /\ [][Next]_vars

(***************************************************************************)
(* The naming of the primary key: table renames against names typed by     *)
(* hand, with the handlers that move the primary key or add and remove     *)
(* columns.                                                                *)
(***************************************************************************)
NextNaming ==
    \/ RenameTable
    \/ EditPrimaryKeyName
    \/ SetPrimaryKey
    \/ AddColumn
    \/ AddTableReferenceColumn
    \/ ConfirmTableReference
    \/ RemoveColumn
    \/ RunTimer

SpecNaming == Init /\ [][NextNaming]_vars

(***************************************************************************)
(* The load path: a table designed with List and Reference columns is      *)
(* created, then loaded by the data grid.                                  *)
(***************************************************************************)
NextLoad ==
    \/ RenameTable
    \/ EditColumnName
    \/ AddListColumn
    \/ ConfirmListValues
    \/ AddTableReferenceColumn
    \/ ConfirmTableReference
    \/ RunTimer
    \/ CreateTable
    \/ FetchTableStructure

SpecLoad == Init /\ [][NextLoad]_vars

(***************************************************************************)
(* The grid on tables of the backend: their structure and rows are what    *)
(* the REST surface may return, drawn from GridTables.                     *)
(***************************************************************************)
NextGrid ==
    \/ OpenTable
    \/ LoadStructure
    \/ FetchTableData
    \/ OpenAddModal
    \/ OpenEditModal
    \/ HandleInputChange
    \/ CloseModal
    \/ SaveRow
    \/ DeleteRow

SpecGrid == Init /\ [][NextGrid]_vars

(***************************************************************************)
(* The designed table in the grid: a table is designed and created, then   *)
(* opened in the grid through getTableStructure, and rows are added.       *)
(***************************************************************************)
NextRows ==
    \/ RenameTable
    \/ EditColumnName
    \/ AddColumn
    \/ RunTimer
    \/ CreateTable
    \/ HandleTableSelect
    \/ LoadCreatedTable
    \/ FetchTableData
    \/ OpenAddModal
    \/ OpenEditModal
    \/ HandleInputChange
    \/ CloseModal
    \/ SaveRow
    \/ DeleteRow

SpecRows == Init /\ [][NextRows]_vars

(***************************************************************************)
(* The pages of the grid: a table with more rows than one page is opened,  *)
(* its pages are turned, and rows are edited and deleted.                  *)
(***************************************************************************)
\* lines 36-41: the rows asked for when the grid was mounted arrive
LoadTableData ==
    /\ data = <<>>
    /\ FetchTableData

NextPages ==
    \/ OpenEventsTable
    \/ LoadStructure
    \/ LoadTableData
    \/ handlePrevPage
    \/ handleNextPage
    \/ OpenEditModal
    \/ CloseModal
    \/ DeleteRow

SpecPages == Init /\ [][NextPages]_vars

(***************************************************************************)
(* The generator and the decoders on given input: the designer holds any   *)
(* table name, column list and configuration of the input sets, with the   *)
(* generateSQL callback of its last edit pending; the table is then        *)
(* created and loaded.                                                     *)
(***************************************************************************)
MaxGenColumns == 2

GenTableNames == {"", "Orders"}

MainDefault == [databricks |-> [catalog |-> "main", schema |-> "default"]]

GenConfigs == {NoDbConfig, MainDefault, [databricks |-> [catalog |-> "", schema |-> "sales"]]}

OrdersKey ==
    [name |-> "OrdersID", dataType |-> "BIGINT", isPrimaryKey |-> TRUE,
     isNullable |-> FALSE, isIdentity |-> TRUE, isFixed |-> TRUE]

PlainColumn(name, dataType, isNullable) ==
    [name |-> name, dataType |-> dataType, isPrimaryKey |-> FALSE,
     isNullable |-> isNullable, isIdentity |-> FALSE, isFixed |-> FALSE]

ListColumn(name, values) ==
    [name |-> name, dataType |-> "List", isPrimaryKey |-> FALSE,
     isNullable |-> TRUE, isIdentity |-> FALSE, isFixed |-> FALSE,
     listValues |-> values]

AmountColumn == PlainColumn("Amount", "Number", FALSE)

GenColumnPool ==
    {OrdersKey,
     AmountColumn,
     DefaultColumn,
     PlainColumn("Note", "Text", TRUE),
     PlainColumn("Due", "Date", TRUE),
     PlainColumn("Paid", "True/False", FALSE),
     ListColumn("Color", <<"Red", "Blue">>),
     ListColumn("Tag", <<"ALLOWED VALUES:x">>),
     ListColumn("Kind", <<>>),
     NewReferenceColumn("customers", <<"Name", "Email">>),
     NewReferenceColumn("products", <<>>)}

GenColumnLists == UNION {[1..n -> GenColumnPool] : n \in 1..MaxGenColumns}

InitGen ==
    /\ tableName \in GenTableNames
    /\ columns \in GenColumnLists
    /\ dbConfig \in GenConfigs
    /\ timers = <<Timer(<<>>, tableName, columns)>>
    /\ generatedSQL = ""
    /\ showListValuesModal = FALSE
    /\ showTableReferenceModal = FALSE
    /\ listValues = ""
    /\ selectedRefTable = ""
    /\ selectedDisplayColumns = <<>>
    /\ lastRequest = Undefined
    /\ store = Undefined
    /\ gridColumns = <<>>
    /\ primaryKeyColumn = Undefined
    /\ gridError = ""
    /\ table = Undefined
    /\ data = <<>>
    /\ isModalOpen = FALSE
    /\ modalMode = "add"
    /\ currentRow = <<>>
    /\ validationErrors = <<>>
    /\ gridRequest = Undefined
    /\ currentPage = 0
    /\ AdapterInit

NextGen ==
    \/ RunTimer
    \/ CreateTable
    \/ FetchTableStructure

SpecGen == InitGen /\ [][NextGen]_vars

(***************************************************************************)
(* The adapter's statements (src/unnamed/part_001): executeQuery puts the  *)
(* parameters of insertRow, updateRow and deleteRow into the query text.   *)
(* The server handles the row requests of the pools below on a connected   *)
(* client.                                                                 *)
(***************************************************************************)
\* lines 103-117: the SQL literal of a parameter value
SqlLiteral(value) ==
    CASE value.t = "null"    -> "NULL"
      [] value.t = "string"  -> "'" \o Join(Split(value.s, "'"), "''") \o "'"
      [] value.t = "boolean" -> IF value.b THEN "TRUE" ELSE "FALSE"
      [] OTHER               -> ToStringValue(value)

\* \w of a regular expression
IsWordChar(c) == IndexOf(LowerLetters \o UpperLetters \o Digits \o "_", c) > 0

\* new RegExp(`@${name}\\b`) matches at position i; the names are
\* identifiers, so \b asks for the end of the text or a non-word character
MatchesPlaceholder(s, i, name) ==
    /\ StartsWithAt(s, "@" \o name, i)
    /\ \/ i + Len(name) + 1 > Len(s)
       \/ ~IsWordChar(CharAt(s, i + Len(name) + 1))

\* s.slice(from - 1, to), 1-based and inclusive
Slice(s, from, to) == IF from > to THEN "" ELSE SubSeq(s, from, to)

\* lines 120-123: replace(/@name\b/g, sqlValue) from position i on; replaced
\* text is not searched again by the same call.  The values of the pools
\* hold no "$", so no replacement pattern applies.
RECURSIVE ReplaceNamedFrom(_, _, _, _)
ReplaceNamedFrom(s, i, name, sqlValue) ==
    LET hits == {k \in i..Len(s) : MatchesPlaceholder(s, k, name)}
        next == CHOOSE k \in hits : \A h \in hits : k <= h
    IN  IF hits = {} THEN Slice(s, i, Len(s))
        ELSE Slice(s, i, next - 1) \o sqlValue
             \o ReplaceNamedFrom(s, next + Len(name) + 1, name, sqlValue)

\* lines 126-128: if the text includes '?', its first '?' becomes sqlValue
ReplaceFirstQuestionMark(s, sqlValue) ==
    IF IndexOf(s, "?") = 0 THEN s
    ELSE Slice(s, 1, IndexOf(s, "?") - 1) \o sqlValue
         \o Slice(s, IndexOf(s, "?") + 1, Len(s))

\* lines 100-130: Object.entries(params).forEach(...)
RECURSIVE ModifiedQuery(_, _)
ModifiedQuery(query, params) ==
    IF Len(params) = 0 THEN query
    ELSE ModifiedQuery(
             ReplaceFirstQuestionMark(
                 ReplaceNamedFrom(query, 1, params[1].key,
                                  SqlLiteral(params[1].value)),
                 SqlLiteral(params[1].value)),
             Tail(params))

\* lines 239-270: the query and the parameters of insertRow; undefined
\* when it throws 'No data provided for insertion'
InsertCall(tableId, rowData) ==
    LET insertColumns == FilterSeq(NotIdKey, RowKeys(rowData))
    IN  IF ~IsDefined(insertRow(tableId, rowData)) THEN Undefined
        ELSE Defined([query  |-> ValueOf(insertRow(tableId, rowData)).sql,
                      params |-> [i \in 1..Len(insertColumns) |->
                                     Entry("p" \o NumberToString(i - 1),
                                           RowGet(rowData, insertColumns[i]))]])

\* lines 281-297: the query and the parameters of updateRow
UpdateCall(tableId, rowId, rowData, pkColumn) ==
    LET keys       == SelectSeq(RowKeys(rowData), LAMBDA key : key # pkColumn)
        setClauses == [i \in 1..Len(keys) |-> keys[i] \o " = @" \o keys[i]]
    IN  [query  |-> "UPDATE " \o tableId \o " SET " \o Join(setClauses, ", ")
                    \o " WHERE " \o pkColumn \o " = @pkValue",
         params |-> RowSet(rowData, "pkValue", Str(rowId))]

\* lines 306-314: the query and the parameters of deleteRow
DeleteCall(tableId, rowId, pkColumn) ==
    [query  |-> "DELETE FROM " \o tableId \o " WHERE " \o pkColumn \o " = @pkValue",
     params |-> <<Entry("pkValue", Str(rowId))>>]

\* values a row of a request holds
StatementValues ==
    {Str("Desk"), Str("O'Neil"), Str("why?"), Str("see @Note"), Str("@pkValue"),
     Str("@p1"), Null, Num(5), Bool(TRUE)}

\* the :rowId of a request path
RowIds == {"1", "2?", "x' OR '1'='1"}

\* bodies of POST and PUT /api/tables/:id/data
StatementRows ==
    {<<Entry("OrdersID", Num(1)), Entry("Title", title), Entry("Note", note)>> :
        title \in StatementValues, note \in StatementValues}

\* the calls of executeQuery the row requests of server.js lines 115-169 make
StatementCalls ==
    {ValueOf(InsertCall("main.default.Orders", RowDelete(rowData, "OrdersID"))) :
        rowData \in StatementRows}
    \cup {UpdateCall("main.default.Orders", rowId, rowData, "OrdersID") :
             rowData \in StatementRows, rowId \in RowIds}
    \cup {DeleteCall("main.default.Orders", rowId, "OrdersID") : rowId \in RowIds}

\* lines 167-169: the query of getTables under a configuration
ShowTablesIn(cfg) ==
    [query  |-> "\n    SHOW TABLES IN " \o cfg.databricks.catalog \o "."
                \o cfg.databricks.schema \o "\n  ",
     params |-> <<>>]

(***************************************************************************)
(* The shared client (part_001 lines 17-77).  A DBSQLClient object is      *)
(* "connecting" from new DBSQLClient() until its connect settles, then     *)
(* "connected" or "failed", and "closed" after close().  A call of         *)
(* executeQuery is at "start", at "connecting" while it awaits the connect *)
(* it began, or at "ready" once getDatabricksClient has returned a client  *)
(* to it.  Every await is a point where other calls run.                   *)
(***************************************************************************)
MaxCalls == 2

MaxClients == 2

\* a call of executeQuery that has not run yet
NewCall(call) ==
    [query |-> call.query, params |-> call.params, pc |-> "start", client |-> 0]

CallIndices == 1..Len(calls)

WithoutCall(r) == [i \in 1..(Len(calls) - 1) |-> IF i < r THEN calls[i] ELSE calls[i + 1]]

\* a request of the server that lists the tables: executeQuery is called
BeginQuery ==
    /\ Len(calls) < MaxCalls
    /\ calls' = Append(calls, NewCall(ShowTablesIn(adapterDbConfig)))
    /\ UNCHANGED <<designerVars, gridVars, dbConfig, lastRequest, store,
                   appDbConfig, adapterDbConfig, databricksClient, clients,
                   executed>>

\* lines 37-59 and 76: getDatabricksClient up to its await, or its return
\* of the cached client
GetDatabricksClient(r) ==
    /\ r \in CallIndices
    /\ calls[r].pc = "start"
    /\ IF ~IsDefined(databricksClient)
       THEN /\ Len(clients) < MaxClients
            /\ clients' = Append(clients, "connecting")
            /\ databricksClient' = Defined(Len(clients) + 1)
            /\ calls' = [calls EXCEPT ![r].pc = "connecting",
                                      ![r].client = Len(clients) + 1]
       ELSE /\ calls' = [calls EXCEPT ![r].pc = "ready",
                                      ![r].client = ValueOf(databricksClient)]
            /\ UNCHANGED <<clients, databricksClient>>
    /\ UNCHANGED <<designerVars, gridVars, dbConfig, lastRequest, store,
                   appDbConfig, adapterDbConfig, executed>>

GetClient == \E r \in CallIndices : GetDatabricksClient(r)

\* lines 62-67 and 76: connect resolves, and the call returns what the
\* variable databricksClient holds by then (client 0 stands for null)
ConnectSucceeds ==
    \E r \in CallIndices :
        /\ calls[r].pc = "connecting"
        /\ clients' = [clients EXCEPT ![calls[r].client] =
                          IF @ = "closed" THEN "closed" ELSE "connected"]
        /\ calls' = [calls EXCEPT ![r].pc = "ready",
                                  ![r].client = IF IsDefined(databricksClient)
                                                THEN ValueOf(databricksClient)
                                                ELSE 0]
        /\ UNCHANGED <<designerVars, gridVars, dbConfig, lastRequest, store,
                       appDbConfig, adapterDbConfig, databricksClient, executed>>

\* lines 68-74: connect rejects; the error is logged and thrown again, and
\* executeQuery ends with it
ConnectFails ==
    \E r \in CallIndices :
        /\ calls[r].pc = "connecting"
        /\ clients' = [clients EXCEPT ![calls[r].client] =
                          IF @ = "closed" THEN "closed" ELSE "failed"]
        /\ calls' = WithoutCall(r)
        /\ UNCHANGED <<designerVars, gridVars, dbConfig, lastRequest, store,
                       appDbConfig, adapterDbConfig, databricksClient, executed>>

\* lines 87-135: on the client it was given, executeQuery opens a
\* session and executes the query with the parameters put in; on a client
\* that is not connected the call ends with the client's error
ExecuteStatement ==
    \E r \in CallIndices :
        /\ calls[r].pc = "ready"
        /\ executed' =
               IF calls[r].client # 0 /\ clients[calls[r].client] = "connected"
               THEN Defined([query     |-> calls[r].query,
                             params    |-> calls[r].params,
                             statement |-> ModifiedQuery(calls[r].query,
                                                         calls[r].params)])
               ELSE executed
        /\ calls' = WithoutCall(r)
        /\ UNCHANGED <<designerVars, gridVars, dbConfig, lastRequest, store,
                       appDbConfig, adapterDbConfig, databricksClient, clients>>

\* what the config dialog submits: DatabaseConfigModal's config
ConfigInputs ==
    {[catalog |-> "main", schema |-> "sales"],
     [catalog |-> "nexus_dev", schema |-> "default"],
     [catalog |-> "", schema |-> "default"]}

\* part_001 lines 23-31 for POST /api/configure (server.js lines 26-43)
Initialize(config) ==
    /\ adapterDbConfig' = [databricks |-> config]
    /\ databricksClient' = Undefined
    /\ clients' = IF IsDefined(databricksClient)
                  THEN [clients EXCEPT ![ValueOf(databricksClient)] = "closed"]
                  ELSE clients

\* part_000 lines 84-122: the dialog's config is posted; on the 200
\* response the shell keeps it and fetches the tables again (lines 44-63:
\* GET /api/tables, the adapter's getTables).  The TableDesigner element of
\* line 136 is given no dbConfig.
HandleSaveConfig ==
    \E config \in ConfigInputs, outcome \in {"ok", "unreachable"} :
        /\ timers = <<>>
        /\ IF outcome = "ok"
           THEN /\ Len(calls) < MaxCalls
                /\ Initialize(config)
                /\ appDbConfig' = config
                /\ calls' = Append(calls,
                                   NewCall(ShowTablesIn([databricks |-> config])))
           ELSE UNCHANGED <<appDbConfig, adapterDbConfig, databricksClient,
                            clients, calls>>
        /\ UNCHANGED <<designerVars, gridVars, dbConfig, lastRequest, store,
                       executed>>

NextAdapter ==
    \/ RenameTable
    \/ RunTimer
    \/ HandleSaveConfig
    \/ BeginQuery
    \/ GetClient
    \/ ConnectSucceeds
    \/ ConnectFails
    \/ ExecuteStatement

SpecAdapter == Init /\ [][NextAdapter]_vars

\* the row requests, each on an adapter whose client an earlier query has
\* connected
InitQuery ==
    /\ tableName = ""
    /\ columns = <<InitialColumn>>
    /\ generatedSQL = ""
    /\ showListValuesModal = FALSE
    /\ showTableReferenceModal = FALSE
    /\ listValues = ""
    /\ selectedRefTable = ""
    /\ selectedDisplayColumns = <<>>
    /\ timers = <<>>
    /\ dbConfig = NoDbConfig
    /\ lastRequest = Undefined
    /\ store = Undefined
    /\ gridColumns = <<>>
    /\ primaryKeyColumn = Undefined
    /\ gridError = ""
    /\ table = Undefined
    /\ data = <<>>
    /\ isModalOpen = FALSE
    /\ modalMode = "add"
    /\ currentRow = <<>>
    /\ validationErrors = <<>>
    /\ gridRequest = Undefined
    /\ currentPage = 0
    /\ appDbConfig = InitialAppConfig
    /\ adapterDbConfig = BootConfig
    /\ databricksClient = Defined(1)
    /\ clients = <<"connected">>
    /\ calls \in {<<NewCall(call)>> : call \in StatementCalls}
    /\ executed = Undefined

NextQuery ==
    \/ GetClient
    \/ ExecuteStatement

SpecQuery == InitQuery /\ [][NextQuery]_vars

(***************************************************************************)
(* The metadata synthesizer on given structure responses: a table of the   *)
(* backend is opened and GET /api/tables/:id/structure answers with one    *)
(* column of any native type and comment below, or with up to              *)
(* MaxStructureColumns columns that differ in name and primary-key flag.   *)
(***************************************************************************)
MaxStructureColumns == 2

NativeTypeNames ==
    {"STRING", "VARCHAR(MAX)", "char(10)", "BIGINT", "INT", "DOUBLE",
     "DECIMAL(10,2)", "TIMESTAMP", "DATE", "BOOLEAN", "BIT", "BINARY"}

StructureComments ==
    {"", "plain note", "allowed values: red",
     "ALLOWED VALUES: Red, Blue",
     "REFERENCES: customers (DISPLAY: Name)",
     "REFERENCES: colors (DISPLAY: Name) ALLOWED VALUES: Red",
     "ALLOWED VALUES: REFERENCES: a"}

TypedColumns ==
    {ServerColumn("Value", t, TRUE, FALSE) : t \in NativeTypeNames}
    \cup {CommentedColumn("Value", t, TRUE, c) :
              t \in NativeTypeNames, c \in StructureComments}

KeyedColumnPool ==
    {ServerColumn("Code", "STRING", TRUE, FALSE),
     ServerColumn("Title", "STRING", FALSE, TRUE),
     ServerColumn("LegacyId", "INT", TRUE, FALSE),
     ServerColumn("OrdersID", "BIGINT", FALSE, TRUE),
     ServerColumn("PAID", "BOOLEAN", TRUE, FALSE),
     ServerColumn("Ident", "INT", TRUE, FALSE)}

StructureResponses ==
    {[columns |-> <<c>>] : c \in TypedColumns}
    \cup {[columns |-> cols] :
             cols \in UNION {[1..n -> KeyedColumnPool] :
                                n \in 0..MaxStructureColumns}}

\* lines 36-41 and 101-179: the structure of the opened table arrives
LoadAnyStructure ==
    /\ IsDefined(table)
    /\ gridColumns = <<>>
    /\ \E result \in StructureResponses : FetchTableStructureFrom(result)

NextStructure ==
    \/ OpenTable
    \/ LoadAnyStructure

SpecStructure == Init /\ [][NextStructure]_vars

(***************************************************************************)
(* The generator on List and Reference columns: the designer holds any     *)
(* column list over the columns below, with the generateSQL callback of    *)
(* its last edit pending.                                                  *)
(***************************************************************************)
MaxDdlColumns == 2

\* a Reference column whose referenceTable is the empty string
UnboundReference ==
    [NewReferenceColumn("", <<>>) EXCEPT !.name = "Owner"]

\* a second column that references customers
BuyerReference ==
    [NewReferenceColumn("customers", <<>>) EXCEPT !.name = "BuyerID"]

DdlColumnPool ==
    {OrdersKey,
     PlainColumn("Note", "Text", TRUE),
     PlainColumn("Pick", "List", TRUE),
     ListColumn("Color", <<"Red", "Blue">>),
     ListColumn("Kind", <<>>),
     NewReferenceColumn("customers", <<"Name", "Email">>),
     BuyerReference,
     NewReferenceColumn("products", <<>>),
     UnboundReference}

DdlColumnLists == UNION {[1..n -> DdlColumnPool] : n \in 1..MaxDdlColumns}

InitDdl ==
    /\ tableName = "Orders"
    /\ columns \in DdlColumnLists
    /\ dbConfig \in {NoDbConfig, MainDefault}
    /\ timers = <<Timer(<<>>, tableName, columns)>>
    /\ generatedSQL = ""
    /\ showListValuesModal = FALSE
    /\ showTableReferenceModal = FALSE
    /\ listValues = ""
    /\ selectedRefTable = ""
    /\ selectedDisplayColumns = <<>>
    /\ lastRequest = Undefined
    /\ store = Undefined
    /\ gridColumns = <<>>
    /\ primaryKeyColumn = Undefined
    /\ gridError = ""
    /\ table = Undefined
    /\ data = <<>>
    /\ isModalOpen = FALSE
    /\ modalMode = "add"
    /\ currentRow = <<>>
    /\ validationErrors = <<>>
    /\ gridRequest = Undefined
    /\ currentPage = 0
    /\ AdapterInit

NextDdl == RunTimer

SpecDdl == InitDdl /\ [][NextDdl]_vars

(***************************************************************************)
(* Properties.                                                             *)
(***************************************************************************)
PrimaryKeys(cols) == {i \in 1..Len(cols) : cols[i].isPrimaryKey}

NamesUniqueAndNonEmpty(cols) ==
    /\ \A i \in 1..Len(cols) : cols[i].name # ""
    /\ \A i, j \in 1..Len(cols) : i # j => cols[i].name # cols[j].name

\* the comment of a column as the decoder receives it: undefined if the
\* generator emits none
EmittedComment(col) ==
    IF ColumnComment(col) = "" THEN Undefined ELSE Defined(ColumnComment(col))

\* the semantic type a column is meant to decode to: the identifier type
\* BIGINT may decode as Number
SemanticTypeOf(col) == IF col.dataType = "BIGINT" THEN "Number" ELSE col.dataType

DecodedTypeOf(col) ==
    mapSqlTypeToFriendlyType(Defined(SqlDataTypeOf(col)), EmittedComment(col))

\* C1: for a column set with unique non-empty names and exactly one primary
\* key, the native type and comment that generateSQL emits for each column
\* decode, by mapSqlTypeToFriendlyType, to the column's semantic type.
C1_SemanticTypesRoundTrip ==
    (NamesUniqueAndNonEmpty(columns) /\ Cardinality(PrimaryKeys(columns)) = 1)
    => \A i \in 1..Len(columns) :
           DecodedTypeOf(columns[i]) = SemanticTypeOf(columns[i])

\* C2: once the created table is loaded through getTableStructure and
\* fetchTableStructure, every List column of the create request is a List
\* column of the grid with the same values, and every Reference column a
\* Reference column with the same referenced table.
C2_LoadPathRoundTrip ==
    (IsDefined(lastRequest) /\ Len(gridColumns) > 0)
    => LET meta == ValueOf(lastRequest).tableMetadata
       IN  /\ Len(gridColumns) = Len(meta)
           /\ \A i \in 1..Len(meta) :
                /\ meta[i].dataType = "List"
                   => /\ gridColumns[i].friendlyType = "List"
                      /\ gridColumns[i].listValues = ValueOf(meta[i].listValues)
                /\ meta[i].dataType = "Reference"
                   => /\ gridColumns[i].friendlyType = "Reference"
                      /\ gridColumns[i].referenceTable
                         = ValueOf(meta[i].referenceTable)

\* the text of a block comment between its delimiters
CommentBody(comment) == Trim(SubSeq(comment, 3, Len(comment) - 2))

TrimmedCommaFree(v) == v # "" /\ Trim(v) = v /\ ~Includes(v, ",")

\* C3: extractListValues returns the values V of a List column, in order,
\* from the comment the generator emits for V, read with its delimiters or
\* without them; extractReferenceInfo returns the referenced table and the
\* display columns of a Reference column from the comment the generator
\* emits, with displayColumns ["ID"] for a column without display columns.
C3_MetadataValuesRoundTrip ==
    \A i \in 1..Len(columns) :
        LET col == columns[i]
        IN  /\ (HasListValues(col)
                /\ \A k \in 1..Len(col.listValues) : TrimmedCommaFree(col.listValues[k]))
               => \/ extractListValues(Defined(ColumnComment(col))) = col.listValues
                  \/ extractListValues(Defined(CommentBody(ColumnComment(col))))
                     = col.listValues
            /\ HasReferenceTable(col)
               => extractReferenceInfo(Defined(ColumnComment(col)))
                  = [table |-> col.referenceTable,
                     displayColumns |-> IF Len(col.displayColumns) > 0
                                        THEN col.displayColumns
                                        ELSE <<"ID">>]

\* C4: in every reachable state of the designer the column list is non-empty
\* and exactly one column is the primary key.
C4_ExactlyOnePrimaryKey ==
    /\ Len(columns) >= 1
    /\ Cardinality(PrimaryKeys(columns)) = 1

\* the primary key was moved to an added column and the first column removed
C4_PrimaryKeyMovedAndFirstColumnRemoved ==
    /\ Len(columns) = 1
    /\ columns[1].isPrimaryKey
    /\ ~columns[1].isFixed

\* C5: in every reachable state of the designer every primary-key column is
\* not nullable.
C5_PrimaryKeyNotNullable ==
    \A i \in 1..Len(columns) : columns[i].isPrimaryKey => ~columns[i].isNullable

\* an added column, nullable when added, is the primary key beside the
\* demoted ID column
C5_AddedColumnIsPrimaryKey ==
    /\ Len(columns) = 2
    /\ columns[2].isPrimaryKey
    /\ ~columns[2].isNullable
    /\ ~columns[1].isPrimaryKey
    /\ columns[2].dataType = "Text"

\* C6: in every reachable state of the designer the names of the columns are
\* pairwise distinct (columns the user has not named yet aside).
C6_ColumnNamesDistinct ==
    \A i, j \in 1..Len(columns) :
        (i # j /\ columns[i].name # "") => columns[i].name # columns[j].name

\* C7: once generateSQL has run, generatedSQL is empty if and only if the
\* table name is empty or some column has an empty name.
C7_EmptyIffNotReady ==
    LET notReady == tableName = "" \/ \E i \in 1..Len(columns) : columns[i].name = ""
    IN  /\ GenerateSQL(tableName, columns, dbConfig) = "" <=> notReady
        /\ timers = <<>> => (generatedSQL = "" <=> notReady)

\* generateSQL ran on a named table whose second column is unnamed
C7_NamedTableUnnamedColumn ==
    /\ timers = <<>>
    /\ tableName = "Orders"
    /\ Len(columns) = 2
    /\ columns[1].name # ""
    /\ columns[2].name = ""
    /\ generatedSQL = ""

\* the fixed table of native types
NativeTypeTable(dataType) ==
    CASE dataType = "Text"       -> "STRING"
      [] dataType = "Number"     -> "DOUBLE"
      [] dataType = "Date"       -> "TIMESTAMP"
      [] dataType = "True/False" -> "BOOLEAN"
      [] dataType = "List"       -> "STRING"
      [] dataType = "Reference"  -> "BIGINT"
      [] dataType = "BIGINT"     -> "BIGINT"

\* a definition line up to its optional comment
DefinitionLineStart(col) ==
    "  " \o col.name \o " " \o NativeTypeTable(col.dataType)
    \o (IF col.isIdentity THEN " GENERATED ALWAYS AS IDENTITY" ELSE "")
    \o (IF col.isNullable THEN "" ELSE " NOT NULL")

IsDefinitionLineOf(line, col) ==
    LET start == DefinitionLineStart(col)
        rest  == SubSeq(line, Len(start) + 1, Len(line))
    IN  /\ StartsWithAt(line, start, 1)
        /\ \/ rest \in {"", ","}
           \/ /\ StartsWithAt(rest, " /* ", 1)
              /\ EndsWith(rest, " */") \/ EndsWith(rest, " */,")

OrdersExampleDDL ==
    "CREATE TABLE main.default.Orders (\n  OrdersID BIGINT GENERATED ALWAYS AS IDENTITY NOT NULL,\n  Amount DOUBLE NOT NULL,\n  CONSTRAINT PK_Orders PRIMARY KEY (\n    OrdersID\n  )\n) USING DELTA;"

\* C8: for valid input the generated text has, after the CREATE TABLE line,
\* one definition line per column in definition order (name, native type of
\* the fixed table, GENERATED ALWAYS AS IDENTITY if isIdentity, NOT NULL if
\* not nullable), then the primary-key constraint, and ends with the line
\* ") USING DELTA;"; for table Orders with OrdersID and Amount in
\* main.default it is the text of the example.
C8_DefinitionLinesAndExample ==
    (timers = <<>> /\ generatedSQL # "")
    => LET lines == Split(generatedSQL, "\n")
           n     == Len(columns)
           keys  == FilterSeq(IsPrimaryKeyColumn, columns)
       IN  /\ Len(lines) >= n + 2
           /\ StartsWithAt(lines[1], "CREATE TABLE ", 1)
           /\ EndsWith(lines[1], "." \o tableName \o " (")
           /\ \A i \in 1..n : IsDefinitionLineOf(lines[i + 1], columns[i])
           /\ Len(keys) > 0
              => /\ Len(lines) >= n + Len(keys) + 4
                 /\ lines[n + 2] = "  CONSTRAINT PK_" \o tableName \o " PRIMARY KEY ("
                 /\ \A k \in 1..Len(keys) :
                        lines[n + 2 + k] \in {"    " \o keys[k].name,
                                              "    " \o keys[k].name \o ","}
                 /\ lines[n + Len(keys) + 3] \in {"  )", "  ),"}
           /\ lines[Len(lines)] = ") USING DELTA;"
           /\ (tableName = "Orders" /\ columns = <<OrdersKey, AmountColumn>>
               /\ dbConfig = MainDefault)
              => generatedSQL = OrdersExampleDDL

\* generateSQL ran on the table of the example
C8_OrdersExampleGenerated ==
    /\ tableName = "Orders"
    /\ columns = <<OrdersKey, AmountColumn>>
    /\ dbConfig = MainDefault
    /\ generatedSQL = OrdersExampleDDL
    /\ IsDefined(lastRequest)

\* the names an untouched primary key has had: the default, or the one a
\* table rename gave it
AutoDerivedKeyNames == {"ID"} \cup {n \o "ID" : n \in TableNameInputs \ {""}}

\* C9: when the table name changes to a non-empty name N, a primary key
\* whose name is still auto-derived is renamed to N followed by "ID"; no
\* change of the table name changes the name of a column that is not the
\* primary key.
C9_PrimaryKeyFollowsTableName ==
    [][tableName' # tableName
       => /\ Len(columns') = Len(columns)
          /\ \A i \in 1..Len(columns) :
               /\ (columns[i].isPrimaryKey /\ tableName' # ""
                   /\ columns[i].name \in AutoDerivedKeyNames)
                  => columns'[i].name = tableName' \o "ID"
               /\ ~columns[i].isPrimaryKey
                  => columns'[i].name = columns[i].name]_vars

\* the table was renamed to Customer and then to Client: the SQL generated
\* before the second rename still names the key CustomerID
C9_RenamedTwice ==
    /\ tableName = "Client"
    /\ columns[1].isFixed
    /\ columns[1].isPrimaryKey
    /\ columns[1].name = "ClientID"
    /\ Includes(generatedSQL, "Customer (\n  CustomerID BIGINT")
    /\ Len(columns) = 2
    /\ columns[2].name = "CustKey"

\* C10: a primary key that carries a name the user typed, one that the
\* auto-rename rule did not produce, keeps its name at every change of the
\* table name.
C10_ManualKeyNameKept ==
    [][tableName' # tableName
       => \A i \in 1..Len(columns) :
              (columns[i].isPrimaryKey /\ columns[i].name \in ManualKeyNames)
              => columns'[i].name = columns[i].name]_vars

\* C10, amended: a primary key whose name does not end with "ID" keeps its
\* name at every change of the table name.
C10_KeyNameNotEndingWithIdKept ==
    [][tableName' # tableName
       => /\ Len(columns') = Len(columns)
          /\ \A i \in 1..Len(columns) :
                 (columns[i].isPrimaryKey /\ ~EndsWith(columns[i].name, "ID"))
                 => columns'[i].name = columns[i].name]_vars

\* the key was named CustKey while the table was Customer, and the table was
\* then renamed to Client
C10_RenamedAfterManualName ==
    /\ tableName = "Client"
    /\ \E i \in 1..Len(columns) :
           columns[i].isPrimaryKey /\ columns[i].name = "CustKey"
    /\ Includes(generatedSQL, "Customer (\n  CustKey BIGINT")

\* C11: setPrimaryKey(index) leaves isPrimaryKey false on every other column,
\* sets isPrimaryKey true and isNullable false on the column at index, and
\* changes no other field of any column.
C11_SetPrimaryKeyEffect ==
    [][\A index \in 1..Len(columns) :
          HandleColumnChange(index, "isPrimaryKey", TRUE)
          => /\ Len(columns') = Len(columns)
             /\ \A i \in 1..Len(columns) :
                  /\ columns'[i].isPrimaryKey = (i = index)
                  /\ i = index => ~columns'[i].isNullable
                  /\ i # index => columns'[i].isNullable = columns[i].isNullable
                  /\ DOMAIN columns'[i] = DOMAIN columns[i]
                  /\ \A f \in DOMAIN columns[i] \ {"isPrimaryKey", "isNullable"} :
                         columns'[i][f] = columns[i][f]]_vars

\* setPrimaryKey(1) on [{ID, primary key}, {CustKey}] has just acted: the
\* callback that regenerates the SQL is still pending
C11_SecondColumnPromoted ==
    /\ Len(columns) = 2
    /\ columns[1].name = "ID" /\ ~columns[1].isPrimaryKey
    /\ columns[2].name = "CustKey" /\ columns[2].isPrimaryKey
    /\ ~columns[2].isNullable
    /\ timers = <<Timer(<<>>, tableName, columns)>>

EnteredListValues(text) ==
    FilterSeq(NotEmptyString, MapSeq(Trim, Split(text, ",")))

C18_ListDialogAppendsEnteredValues ==
    /\ [](\A i \in 1..Len(columns) :
             columns[i].dataType = "List" => columns[i].listValues # <<>>)
    /\ [][\A text \in ListValuesInputs :
             ConfirmListValuesWith(text)
             => IF EnteredListValues(text) = <<>>
                THEN columns' = columns
                ELSE /\ Len(columns') = Len(columns) + 1
                     /\ SubSeq(columns', 1, Len(columns)) = columns
                     /\ columns'[Len(columns')].dataType = "List"
                     /\ columns'[Len(columns')].listValues
                            = EnteredListValues(text)]_vars

\* C19: confirming the reference dialog with table T and display columns
\* D appends exactly one Reference column named T + "ID" with
\* referenceTable T and displayColumns D; confirming with no table
\* selected leaves the column list unchanged.
C19_ReferenceDialogOneConfirmOneColumn ==
    [][\A selection \in ReferenceSelections :
          ConfirmTableReferenceWith(selection)
          => IF selection.table = ""
             THEN columns' = columns
             ELSE /\ Len(columns') = Len(columns) + 1
                  /\ SubSeq(columns', 1, Len(columns)) = columns
                  /\ columns'[Len(columns')].dataType = "Reference"
                  /\ columns'[Len(columns')].name = selection.table \o "ID"
                  /\ columns'[Len(columns')].referenceTable = selection.table
                  /\ columns'[Len(columns')].displayColumns
                         = selection.displayColumns]_vars

\* C20: in every state of the designer no column with isPrimaryKey = FALSE
\* has isIdentity = TRUE, and the generated DDL attaches GENERATED ALWAYS
\* AS IDENTITY to no line other than the primary key column's.
C20_IdentityOnlyOnPrimaryKey ==
    /\ \A i \in 1..Len(columns) :
          columns[i].isIdentity => columns[i].isPrimaryKey
    /\ \A i \in 1..Len(columns) :
          Includes(ColumnDefinition(columns[i]), "GENERATED ALWAYS AS IDENTITY")
          => columns[i].isPrimaryKey

\* what every step of saveRow leaves alone
FormKept ==
    /\ isModalOpen
    /\ UNCHANGED <<currentRow, modalMode, gridColumns, primaryKeyColumn, table>>

\* the value the form holds for a column
FormValue(column) == RowGet(currentRow, column.name)

\* rule (a): the key of a new row is not validated
SkippedAsKey(column) == TreatedAsPrimaryKey(column) /\ modalMode = "add"

IsEmptyValue(value) == value \in {Null, UndefinedValue, Str("")}

\* C13: validateForm's error map has an entry for exactly the columns whose
\* own value fails validateField, whatever the other columns hold, and a
\* non-nullable Text column holding '', null or undefined gets the entry
\* '<name> cannot be empty'.
C13_ErrorsForExactlyTheFailingColumns ==
    [][\A lenientDates \in BOOLEAN : \A outcome \in Outcomes :
          (FormKept /\ SaveRowIn(lenientDates, outcome))
          => /\ \A i \in 1..Len(gridColumns) :
                  LET column == gridColumns[i]
                      error  == validateField(column, FormValue(column), lenientDates)
                  IN  /\ HasKey(validationErrors', column.name) <=> IsDefined(error)
                      /\ IsDefined(error)
                         => RowGet(validationErrors', column.name) = ValueOf(error)
                      /\ (/\ FriendlyTypeOf(column) = "Text"
                          /\ ~column.isNullable
                          /\ ~SkippedAsKey(column)
                          /\ IsEmptyValue(FormValue(column)))
                         => RowGet(validationErrors', column.name)
                            = column.name \o " cannot be empty"
             /\ \A j \in 1..Len(validationErrors') :
                  \E i \in 1..Len(gridColumns) :
                      gridColumns[i].name = validationErrors'[j].key]_vars

C13_SeveralColumnsInError ==
    /\ isModalOpen
    /\ Len(validationErrors) >= 3
    /\ HasKey(validationErrors, "Title")
    /\ RowGet(validationErrors, "Title") = "Title cannot be empty"
    /\ ~HasKey(validationErrors, "OrdersID")

\* C14: for a List column the form reaches rule (c) with, validation yields
\* the membership error listing the allowed values exactly when the value is
\* non-empty and not one of listValues; a member yields no error, and an
\* empty value on a nullable List column yields no error.
C14_ListMembership ==
    [][\A lenientDates \in BOOLEAN : \A outcome \in Outcomes :
          (FormKept /\ SaveRowIn(lenientDates, outcome))
          => \A i \in 1..Len(gridColumns) :
                LET column == gridColumns[i]
                    value  == FormValue(column)
                    member == \E k \in 1..Len(column.listValues) :
                                  value = Str(column.listValues[k])
                IN  (FriendlyTypeOf(column) = "List" /\ ~SkippedAsKey(column))
                    => /\ (~IsEmptyValue(value) /\ ~member)
                          => RowGet(validationErrors', column.name)
                             = column.name \o " must be one of the allowed values: "
                               \o Join(column.listValues, ", ")
                       /\ member => ~HasKey(validationErrors', column.name)
                       /\ (IsEmptyValue(value) /\ column.isNullable)
                          => ~HasKey(validationErrors', column.name)]_vars

C14_GreenRejected ==
    /\ isModalOpen
    /\ RowGet(currentRow, "Color") = Str("Green")
    /\ HasKey(validationErrors, "Color")
    /\ RowGet(validationErrors, "Color")
       = "Color must be one of the allowed values: Red, Blue"

\* C15: a Number or Reference column holding a non-empty value gets no
\* error only if the value parses as a finite number; any other non-empty
\* value gets an error for that column.
C15_OnlyFiniteNumbersPass ==
    [][\A lenientDates \in BOOLEAN : \A outcome \in Outcomes :
          (FormKept /\ SaveRowIn(lenientDates, outcome))
          => \A i \in 1..Len(gridColumns) :
                LET column == gridColumns[i]
                    value  == FormValue(column)
                IN  (/\ FriendlyTypeOf(column) \in {"Number", "Reference"}
                     /\ ~SkippedAsKey(column)
                     /\ ~IsEmptyValue(value))
                    => (HasKey(validationErrors', column.name)
                        <=> ToNumber(value) # "finite")]_vars

\* a loaded table with no column flagged as key and none named like an id
NoKeyColumn(cols) ==
    \A i \in 1..Len(cols) :
        /\ ~cols[i].isPrimaryKey
        /\ ~EndsWith(ToLowerCase(cols[i].name), "id")

\* C16: when the loaded table has no column flagged as primary key and none
\* whose name ends with 'id', the load still sets the columns and shows the
\* warning, and from then on the grid sends no PUT and no DELETE: saveRow in
\* edit mode and deleteRow leave an error message and issue no request.
C16_NoKeyNoUpdateNoDelete ==
    /\ []((gridColumns # <<>> /\ NoKeyColumn(gridColumns))
          => /\ ~IsDefined(primaryKeyColumn)
             /\ IsDefined(gridRequest)
                => ValueOf(gridRequest).method \notin {"PUT", "DELETE"})
    /\ [][/\ \A t \in GridTables :
               (LoadStructure /\ table = Defined([id |-> t.id])
                /\ NoKeyColumn(t.columns))
               => /\ Len(gridColumns') = Len(t.columns)
                  /\ \A i \in 1..Len(t.columns) :
                        gridColumns'[i].name = t.columns[i].name
                  /\ gridError' = NoPrimaryKeyWarning
          /\ (gridColumns # <<>> /\ NoKeyColumn(gridColumns))
             => /\ \A lenientDates \in BOOLEAN : \A outcome \in Outcomes :
                     (FormKept /\ modalMode = "edit" /\ SaveRowIn(lenientDates, outcome))
                     => /\ ~IsDefined(gridRequest')
                        /\ validateForm(lenientDates).isValid
                           => gridError'
                              = "Error: Cannot update row: No primary key column identified"
                /\ DeleteRow
                   => /\ ~IsDefined(gridRequest')
                      /\ gridError'
                         = "Cannot delete row: No primary key column identified"]_vars

C16_UpdateRefusedWithoutKey ==
    /\ gridColumns # <<>>
    /\ NoKeyColumn(gridColumns)
    /\ isModalOpen
    /\ modalMode = "edit"
    /\ validationErrors = <<>>
    /\ gridError = "Error: Cannot update row: No primary key column identified"
    /\ ~IsDefined(gridRequest)

\* C17: every POST of saveRow carries a row body without the field of the
\* table's primary key column, and the INSERT statement insertRow builds for
\* it does not list that column.
C17_InsertWithoutPrimaryKey ==
    (IsDefined(gridRequest) /\ IsDefined(lastRequest)
     /\ ValueOf(gridRequest).method = "POST")
    => \A i \in 1..Len(ValueOf(lastRequest).tableMetadata) :
          LET column == ValueOf(lastRequest).tableMetadata[i]
              insert == ValueOf(gridRequest).statement
          IN  column.isPrimaryKey
              => /\ ~HasKey(ValueOf(gridRequest).body, column.name)
                 /\ IsDefined(insert)
                    => \A k \in 1..Len(ValueOf(insert).columns) :
                          ValueOf(insert).columns[k] # column.name

\* ---------------------------------------------------------------------
\* C21: once the deferred callbacks of a designer mutation have run, the
\* displayed generatedSQL is generateSQL of the current table name and the
\* current columns; in particular it is empty whenever a current column
\* has an empty name.
C21_DisplayedSqlIsCurrent ==
    timers = <<>>
    => /\ generatedSQL = GenerateSQL(tableName, columns, dbConfig)
       /\ SomeColumnUnnamed(columns) => generatedSQL = ""

\* ---------------------------------------------------------------------
\* the lines of a statement that are foreign-key clauses, without the
\* separating comma
IsForeignKeyLine(line) == Includes(line, " FOREIGN KEY (")

WithoutTrailingComma(line) ==
    IF EndsWith(line, ",") THEN SubSeq(line, 1, Len(line) - 1) ELSE line

ForeignKeyLines(sql) ==
    MapSeq(WithoutTrailingComma, FilterSeq(IsForeignKeyLine, Split(sql, "\n")))

\* the constraint name of a foreign-key clause
ConstraintNameOf(line) ==
    SubSeq(line, Len("  CONSTRAINT ") + 1, IndexOf(line, " FOREIGN KEY (") - 1)

\* what a clause says after its constraint name
ClauseBodyOf(line) ==
    SubSeq(line, IndexOf(line, " FOREIGN KEY ("), Len(line))

\* C22: the generated DDL has one foreign-key clause per Reference column
\* with a set referenceTable R, in column order, each on its own column
\* and referencing <catalog>.<schema>.R (R + "ID"); the constraint names
\* of one statement are pairwise distinct, also when several columns
\* reference the same table; no other column gets a clause.
C22_OneForeignKeyPerReferenceColumn ==
    generatedSQL # ""
    => LET refs  == FilterSeq(HasReferenceTable, columns)
           lines == ForeignKeyLines(generatedSQL)
       IN  /\ Len(lines) = Len(refs)
           /\ \A k \in 1..Len(lines) :
                 /\ StartsWithAt(lines[k], "  CONSTRAINT FK_", 1)
                 /\ ClauseBodyOf(lines[k])
                    = " FOREIGN KEY (" \o refs[k].name \o ") REFERENCES "
                      \o CatalogOf(dbConfig) \o "." \o SchemaOf(dbConfig)
                      \o "." \o refs[k].referenceTable
                      \o " (" \o refs[k].referenceTable \o "ID)"
           /\ \A j, k \in 1..Len(lines) :
                 j # k => ConstraintNameOf(lines[j]) # ConstraintNameOf(lines[k])

\* a statement was generated for two columns that reference the same table
C22_TwoReferencesToOneTable ==
    /\ generatedSQL # ""
    /\ Len(columns) = 2
    /\ HasReferenceTable(columns[1])
    /\ HasReferenceTable(columns[2])
    /\ columns[1].referenceTable = columns[2].referenceTable
    /\ columns[1].name # columns[2].name
    /\ Len(ForeignKeyLines(generatedSQL)) = 2

\* ---------------------------------------------------------------------
\* the number of places of s where sub starts
Occurrences(s, sub) ==
    Cardinality({i \in 1..(Len(s) - Len(sub) + 1) : StartsWithAt(s, sub, i)})

\* the line of the statement that defines column i: the first line is the
\* CREATE TABLE head
DefinitionLineOf(sql, i) == WithoutTrailingComma(Split(sql, "\n")[i + 1])

\* C23: every generated column definition carries at most one trailing
\* comment: an ALLOWED VALUES comment exactly when the column is a List
\* with non-empty listValues, a REFERENCES comment exactly when it is a
\* Reference with a non-empty referenceTable, and none for any other
\* column.
C23_OneCommentFormPerColumn ==
    generatedSQL # ""
    => \A i \in 1..Len(columns) :
          LET line == DefinitionLineOf(generatedSQL, i)
          IN  /\ Occurrences(line, "/*") <= 1
              /\ Occurrences(line, "/*") = Occurrences(line, "*/")
              /\ Occurrences(line, "/*") = 1 => EndsWith(line, " */")
              /\ Includes(line, " /* ALLOWED VALUES: ")
                 <=> (/\ columns[i].dataType = "List"
                      /\ "listValues" \in DOMAIN columns[i]
                      /\ columns[i].listValues # <<>>)
              /\ Includes(line, " /* REFERENCES: ")
                 <=> (/\ columns[i].dataType = "Reference"
                      /\ "referenceTable" \in DOMAIN columns[i]
                      /\ columns[i].referenceTable # "")
              /\ Occurrences(line, "/*") = 1
                 => \/ Includes(line, " /* ALLOWED VALUES: ")
                    \/ Includes(line, " /* REFERENCES: ")

\* a statement was generated for a List column with values next to a
\* Reference column without a table: only the first line carries a comment
C23_ListCommentedReferenceBare ==
    /\ generatedSQL # ""
    /\ Len(columns) = 2
    /\ HasListValues(columns[1])
    /\ columns[2].dataType = "Reference"
    /\ columns[2].referenceTable = ""
    /\ EndsWith(DefinitionLineOf(generatedSQL, 1), " /* ALLOWED VALUES: Red, Blue */")
    /\ ~Includes(DefinitionLineOf(generatedSQL, 2), "/*")

\* ---------------------------------------------------------------------
\* C24: the inverse type mapping gives the comment markers precedence over
\* the native type: for every native type name the friendly type is List
\* if the comment contains "ALLOWED VALUES:", otherwise Reference if it
\* contains "REFERENCES:", and only otherwise the class of the native type
\* name.
C24_CommentMarkersBeforeNativeType ==
    \A i \in 1..Len(gridColumns) :
        LET column  == gridColumns[i]
            comment == IF IsDefined(column.comment) THEN ValueOf(column.comment)
                       ELSE ""
        IN  column.friendlyType =
                IF Includes(comment, "ALLOWED VALUES:") THEN "List"
                ELSE IF Includes(comment, "REFERENCES:") THEN "Reference"
                ELSE mapSqlTypeToFriendlyType(Defined(column.dataType), Undefined)

\* a BIGINT column whose comment holds both markers, REFERENCES first, was
\* loaded as a List
C24_BothMarkersOnBigint ==
    /\ Len(gridColumns) = 1
    /\ gridColumns[1].dataType = "BIGINT"
    /\ gridColumns[1].comment
           = Defined("REFERENCES: colors (DISPLAY: Name) ALLOWED VALUES: Red")
    /\ gridColumns[1].friendlyType = "List"

\* ---------------------------------------------------------------------
\* the name ends with "id" in any letter case
EndsWithIdAnyCase(name) ==
    /\ Len(name) >= 2
    /\ CharAt(name, Len(name) - 1) \in {"i", "I"}
    /\ CharAt(name, Len(name)) \in {"d", "D"}

\* the smallest element of a non-empty set of indices
FirstOf(indices) == CHOOSE i \in indices : \A j \in indices : i <= j

\* C26: on loading a table the primary-key column is the first column the
\* store flags as primary key if any is flagged; only if none is flagged
\* it is the first column, in declared order, whose name ends with "id"
\* in any letter case; if neither exists no primary-key column is set.
C26_FlaggedKeyBeforeNamedKey ==
    gridColumns # <<>>
    => LET flagged == {i \in 1..Len(gridColumns) : gridColumns[i].isPrimaryKey}
           named   == {i \in 1..Len(gridColumns) :
                          EndsWithIdAnyCase(gridColumns[i].name)}
       IN  primaryKeyColumn =
               IF flagged # {} THEN Defined(gridColumns[FirstOf(flagged)].name)
               ELSE IF named # {} THEN Defined(gridColumns[FirstOf(named)].name)
               ELSE Undefined

\* a table was loaded whose first column is named like an id and whose
\* second column is the flagged one
C26_FlaggedColumnAfterNamedColumn ==
    /\ Len(gridColumns) = 2
    /\ gridColumns[1].name = "LegacyId"
    /\ ~gridColumns[1].isPrimaryKey
    /\ gridColumns[2].name = "Title"
    /\ gridColumns[2].isPrimaryKey
    /\ primaryKeyColumn = Defined("Title")

\* ---------------------------------------------------------------------
\* the column is the primary key of the loaded table
IsKeyColumn(column) ==
    column.isPrimaryKey \/ primaryKeyColumn = Defined(column.name)

\* rules (b) and (c) on a value, the key skip left aside
FailsRules(column, value, lenientDates) ==
    \/ ~column.isNullable /\ IsEmptyValue(value)
    \/ /\ FriendlyTypeOf(column) \in {"Number", "Reference"}
       /\ value \notin {Null, Str("")}
       /\ IsNaNNumber(value)
    \/ /\ FriendlyTypeOf(column) = "Date"
       /\ value \notin {Null, Str("")}
       /\ IsNaNDate(value, lenientDates)
    \/ /\ FriendlyTypeOf(column) = "List"
       /\ Truthy(value)
       /\ \A k \in 1..Len(column.listValues) : value # Str(column.listValues[k])

\* C25: in add mode the primary-key column never produces a validation
\* error, whatever its value, nullability or type; in edit mode it is
\* validated like any other column: it is in error exactly when its value
\* fails rule (b) or (c), and an empty value of a non-nullable key gets
\* "<name> cannot be empty".
C25_KeySkippedOnlyInAddMode ==
    [][\A lenientDates \in BOOLEAN : \A outcome \in Outcomes :
          (FormKept /\ SaveRowIn(lenientDates, outcome))
          => \A i \in 1..Len(gridColumns) :
                LET column == gridColumns[i]
                    value  == FormValue(column)
                IN  IsKeyColumn(column)
                    => IF modalMode = "add"
                       THEN ~HasKey(validationErrors', column.name)
                       ELSE /\ HasKey(validationErrors', column.name)
                               <=> FailsRules(column, value, lenientDates)
                            /\ (~column.isNullable /\ IsEmptyValue(value))
                               => RowGet(validationErrors', column.name)
                                  = column.name \o " cannot be empty"]_vars

\* a new row was validated: its non-nullable key is empty and not in
\* error, while another column is
C25_EmptyKeyOfNewRowAccepted ==
    /\ isModalOpen
    /\ modalMode = "add"
    /\ validationErrors # <<>>
    /\ \E i \in 1..Len(gridColumns) :
          /\ IsKeyColumn(gridColumns[i])
          /\ ~gridColumns[i].isNullable
          /\ IsEmptyValue(FormValue(gridColumns[i]))
          /\ ~HasKey(validationErrors, gridColumns[i].name)

\* ---------------------------------------------------------------------
\* the parameters whose placeholder starts at position i of the query
PlaceholderAt(query, i, params) ==
    SelectSeq(params, LAMBDA e : MatchesPlaceholder(query, i, e.key))

\* every placeholder of the query replaced by the literal of its own
\* parameter, in one pass over the query as written
RECURSIVE EachPlaceholderByItsOwnLiteral(_, _, _)
EachPlaceholderByItsOwnLiteral(query, i, params) ==
    LET hits == {k \in i..Len(query) : PlaceholderAt(query, k, params) # <<>>}
        next == CHOOSE k \in hits : \A h \in hits : k <= h
        param == PlaceholderAt(query, next, params)[1]
    IN  IF hits = {} THEN Slice(query, i, Len(query))
        ELSE Slice(query, i, next - 1) \o SqlLiteral(param.value)
             \o EachPlaceholderByItsOwnLiteral(query, next + Len(param.key) + 1,
                                               params)

\* C27: in executeQuery each placeholder @name is replaced by the SQL
\* literal of its own parameter value only; text substituted for one
\* parameter is not rewritten by the substitution of another parameter or
\* by the positional '?' replacement, so the executed statement is the
\* query with each placeholder replaced once by its quote-escaped literal.
C27_PlaceholdersReplacedByOwnLiteralOnly ==
    IsDefined(executed)
    => ValueOf(executed).statement
       = EachPlaceholderByItsOwnLiteral(ValueOf(executed).query, 1,
                                        ValueOf(executed).params)

\* ---------------------------------------------------------------------
\* a step in which getDatabricksClient returns a client to call r
HandsClientTo(r) ==
    /\ Len(calls') = Len(calls)
    /\ calls[r].pc # "ready"
    /\ calls'[r].pc = "ready"

\* C28: the shared client is only ever handed out connected: after a
\* failed connect no client stays cached, so that the next executeQuery
\* connects afresh, and a call that arrives while another call's connect
\* is in progress is not given the client that is not connected yet.
C28_ClientHandedOutConnected ==
    /\ [](IsDefined(databricksClient)
          => clients[ValueOf(databricksClient)] # "failed")
    /\ [][\A r \in CallIndices :
             HandsClientTo(r)
             => /\ calls'[r].client # 0
                /\ clients'[calls'[r].client] = "connected"]_vars

\* ---------------------------------------------------------------------
\* the shell holds a configuration saved through the dialog
ConfigSaved == "catalog" \in DOMAIN appDbConfig

\* C30: once a configuration with catalog C and schema S has been saved
\* through the config dialog, every statement the designer generates
\* afterwards begins "CREATE TABLE C.S.<tableName>", the namespace the
\* backend lists the tables from.
C30_GeneratedInSavedNamespace ==
    [][(ConfigSaved /\ generatedSQL' # generatedSQL /\ generatedSQL' # "")
       => /\ adapterDbConfig.databricks = appDbConfig
          /\ StartsWithAt(generatedSQL',
                          "CREATE TABLE " \o appDbConfig.catalog \o "."
                          \o appDbConfig.schema \o "." \o tableName \o " (", 1)]_vars

\* ---------------------------------------------------------------------
\* C29: in every reachable state of the grid the current page is in
\* range, currentPage = 0 or currentPage < ceil(data.length / 15), also
\* after a delete and the reload that follows have shrunk the rows while
\* the last page is shown: a table with rows never shows an empty page.
C29_CurrentPageInRange ==
    /\ currentPage = 0 \/ currentPage < totalPages
    /\ Len(data) > 0 => Len(paginatedData) > 0

====
